---- MODULE Spec2Model ----
(***************************************************************************)
(* The validation engine of exort (src/src/validation.ts): FormValidator,  *)
(* FieldValidator, FormValidationError and the Validation service.         *)
(*                                                                         *)
(* JavaScript objects that the code shares by reference (the per-field     *)
(* `errors` arrays, the `fieldErrors` maps, the caller's input mapping)    *)
(* are kept in heaps and named by their index, so that aliasing is part of *)
(* the model.  An async function is a process: its position is the await   *)
(* it is suspended at, and one action runs it from one await to the next.  *)
(***************************************************************************)
EXTENDS Integers, Sequences, FiniteSets, TLC

\* ------------------------------------------------------------------ bounds
MaxFields == 2      \* fields registered on one form validator
MaxRules == 2       \* rules one form validator holds, over all its fields
MaxPushes == 1      \* addError calls of the application

\* ------------------------------------------------------------ input values
\* A JavaScript value: t is its type, s the characters of a string, n a
\* number, b a boolean, items the (string) elements of an array.
Value(t, s, n, b, items) == [t |-> t, s |-> s, n |-> n, b |-> b, items |-> items]
Undefined == Value("undefined", <<>>, 0, FALSE, <<>>)
Null == Value("null", <<>>, 0, FALSE, <<>>)
Str(s) == Value("str", s, 0, FALSE, <<>>)
Num(n) == Value("num", <<>>, n, FALSE, <<>>)
Bool(b) == Value("bool", <<>>, 0, b, <<>>)
Arr(items) == Value("arr", <<>>, 0, FALSE, items)

\* The field names and the values the caller's input mapping may hold.
Names == {"name", "10", "2"}

\* The keys of the input mapping, and the domain of everything kept per
\* field name.
Keys == Names \cup {"email"}
InputValues == {Undefined, Str(<<" ">>), Num(2)}

\* ------------------------------------------------- JavaScript object keys
\* for...in and Object.keys enumerate the own keys of a plain object with
\* the canonical array indices first, in ascending numeric order, and the
\* other string keys after them in insertion order.
IndexOf(key) ==
  CASE key = "2" -> 2
    [] key = "10" -> 10
    [] OTHER -> -1

IsIndexKey(key) == IndexOf(key) >= 0

RECURSIVE SortedIndexKeys(_)
SortedIndexKeys(keys) ==
  IF keys = {} THEN <<>>
  ELSE LET k == CHOOSE x \in keys : \A y \in keys : IndexOf(x) <= IndexOf(y)
       IN <<k>> \o SortedIndexKeys(keys \ {k})

Range(seq) == {seq[i] : i \in 1..Len(seq)}

OwnKeys(ins) ==
  SortedIndexKeys({k \in Range(ins) : IsIndexKey(k)})
    \o SelectSeq(ins, LAMBDA k : ~IsIndexKey(k))

\* ------------------------------------------------------------ misc helpers
\* _.isNone: the value is null or undefined.
isNone(val) == val.t \in {"undefined", "null"}

\* _.lowerCase on the field names of the model: the words of the name in
\* lower case, separated by spaces.
lowerCase(fieldName) ==
  CASE fieldName = "name" -> "name"
    [] fieldName = "10" -> "10"
    [] fieldName = "2" -> "2"
    [] fieldName = "email" -> "email"
    [] OTHER -> fieldName

\* A message template is a sequence of parts: literal text, or a
\* placeholder ${key}.
Lit(text) == [ph |-> FALSE, v |-> text]
Ph(key) == [ph |-> TRUE, v |-> key]

\* _.template(message)(attrs): every placeholder is replaced by the value
\* attrs holds under its key; a key attrs does not hold renders as empty.
RECURSIVE template(_, _)
template(message, attrs) ==
  IF message = <<>> THEN ""
  ELSE LET part == Head(message)
           text == IF ~part.ph THEN part.v
                   ELSE IF part.v \in DOMAIN attrs THEN attrs[part.v]
                   ELSE ""
       IN text \o template(Tail(message), attrs)

\* ------------------------------------------------------------------ moment
\* A moment is an instant (ms) or invalid.
Moment(ms) == [valid |-> TRUE, ms |-> ms]
InvalidMoment == [valid |-> FALSE, ms |-> 0]

DigitChars == {"0", "1", "2", "3", "4", "5", "6", "7", "8", "9"}

\* moment(input) at wall-clock time `clock`: a number is a timestamp,
\* undefined reads the clock, null is invalid, and a string without a digit
\* is no date in any format (strings holding digits are outside the model).
moment(val, clock) ==
  CASE val.t = "num" -> Moment(val.n)
    [] val.t = "undefined" -> Moment(clock)
    [] val.t = "str" /\ \A i \in 1..Len(val.s) : val.s[i] \notin DigitChars -> InvalidMoment
    [] OTHER -> InvalidMoment

\* Moment#toString: a rendering of the instant.
MomentToString(m) == IF m.valid THEN "@" \o ToString(m.ms) ELSE "Invalid date"

\* ------------------------------------------------- the Validation service
RULE_MESSAGES(rule) ==
  CASE rule = "required" -> <<Lit("The "), Ph("label"), Lit(" field is required.")>>
    [] rule = "after" -> <<Lit("The "), Ph("label"), Lit(" must be a date after "), Ph("date"), Lit(".")>>
    [] rule = "unique" -> <<Lit("The "), Ph("label"), Lit(" has already been taken.")>>
    [] rule = "accepted" -> <<Lit("The "), Ph("label"), Lit(" must be accepted.")>>
    [] rule = "email" -> <<Lit("The "), Ph("label"), Lit(" must be a valid email address.")>>
    [] rule = "afterOrEqual" ->
         <<Lit("The "), Ph("label"), Lit(" must be a date after or equal to "), Ph("date"), Lit(".")>>
    [] rule = "before" -> <<Lit("The "), Ph("label"), Lit(" must be a date before "), Ph("date"), Lit(".")>>
    [] rule = "beforeOrEqual" ->
         <<Lit("The "), Ph("label"), Lit(" must be a date before or equal to "), Ph("date"), Lit(".")>>

WhiteSpace == {" ", "\t", "\n"}

DigitOf(d) ==
  CASE d = 0 -> "0" [] d = 1 -> "1" [] d = 2 -> "2" [] d = 3 -> "3" [] d = 4 -> "4"
    [] d = 5 -> "5" [] d = 6 -> "6" [] d = 7 -> "7" [] d = 8 -> "8" [] d = 9 -> "9"

RECURSIVE NatToChars(_)
NatToChars(n) == IF n < 10 THEN <<DigitOf(n)>> ELSE NatToChars(n \div 10) \o <<DigitOf(n % 10)>>

RECURSIVE JoinItems(_)
JoinItems(items) ==
  IF items = <<>> THEN <<>>
  ELSE IF Len(items) = 1 THEN items[1]
  ELSE items[1] \o <<",">> \o JoinItems(Tail(items))

\* `${val}`: the string conversion of a value, as characters.
ToChars(val) ==
  CASE val.t = "str" -> val.s
    [] val.t = "num" -> IF val.n < 0 THEN <<"-">> \o NatToChars(-val.n) ELSE NatToChars(val.n)
    [] val.t = "bool" -> IF val.b THEN <<"t", "r", "u", "e">> ELSE <<"f", "a", "l", "s", "e">>
    [] val.t = "arr" -> JoinItems(val.items)
    [] val.t = "null" -> <<"n", "u", "l", "l">>
    [] OTHER -> <<"u", "n", "d", "e", "f", "i", "n", "e", "d">>

\* isEmpty that takes the string as it is, whitespace included.
isEmpty_NoStrip(val) ==
  IF isNone(val) THEN TRUE
  ELSE IF Len(ToChars(val)) > 0 THEN FALSE ELSE TRUE

isEmpty(val) ==
  IF isNone(val) THEN TRUE
  ELSE LET str == SelectSeq(ToChars(val), LAMBDA c : c \notin WhiteSpace)
       IN IF Len(str) > 0 THEN FALSE ELSE TRUE

\* moment(dateToCheck).isAfter(afterDate): false when either is invalid.
isAfter(dateToCheck, afterDate, clock) ==
  LET m == moment(dateToCheck, clock)
  IN m.valid /\ afterDate.valid /\ m.ms > afterDate.ms

\* isAfterOrEqual that compares as isAfter does.
isAfterOrEqual_Strict(dateToCheck, afterDate, clock) ==
  LET m == moment(dateToCheck, clock)
  IN m.valid /\ afterDate.valid /\ m.ms > afterDate.ms

\* moment(dateToCheck).isSameOrAfter(afterDate)
isAfterOrEqual(dateToCheck, afterDate, clock) ==
  LET m == moment(dateToCheck, clock)
  IN m.valid /\ afterDate.valid /\ m.ms >= afterDate.ms

\* moment(dateToCheck).isBefore(beforeDate)
isBefore(dateToCheck, beforeDate, clock) ==
  LET m == moment(dateToCheck, clock)
  IN m.valid /\ beforeDate.valid /\ m.ms < beforeDate.ms

\* moment(dateToCheck).isSameOrBefore(beforeDate)
isBeforeOrEqual(dateToCheck, beforeDate, clock) ==
  LET m == moment(dateToCheck, clock)
  IN m.valid /\ beforeDate.valid /\ m.ms <= beforeDate.ms

LowerLetters ==
  <<"a", "b", "c", "d", "e", "f", "g", "h", "i", "j", "k", "l", "m",
    "n", "o", "p", "q", "r", "s", "t", "u", "v", "w", "x", "y", "z">>
UpperLetters ==
  <<"A", "B", "C", "D", "E", "F", "G", "H", "I", "J", "K", "L", "M",
    "N", "O", "P", "Q", "R", "S", "T", "U", "V", "W", "X", "Y", "Z">>

\* String.prototype.toLowerCase, one character
ToLowerChar(ch) ==
  IF \E i \in 1..Len(UpperLetters) : UpperLetters[i] = ch
  THEN LowerLetters[CHOOSE i \in 1..Len(UpperLetters) : UpperLetters[i] = ch]
  ELSE ch

toLowerCase(str) == [i \in 1..Len(str) |-> ToLowerChar(str[i])]

\* isAccepted that takes every token its documentation names: yes, on, 1, true.
isAccepted_Documented(val) ==
  IF val.t = "str"
  THEN toLowerCase(val.s) \in {<<"y", "e", "s">>, <<"o", "n">>, <<"1">>, <<"t", "r", "u", "e">>}
  ELSE IF val.t = "bool" THEN val.b = TRUE
  ELSE IF val.t = "num" THEN val.n = 1
  ELSE FALSE

\* Validation.isAccepted: decided by typeof val
isAccepted(val) ==
  IF val.t = "str" THEN toLowerCase(val.s) = <<"y", "e", "s">>
  ELSE IF val.t = "bool" THEN val.b = TRUE
  ELSE IF val.t = "num" THEN val.n = 1
  ELSE FALSE

\* ---- the regular expression of isEmail
\* The pattern is written as a template literal, in which a backslash before
\* a character that starts no escape sequence is dropped: \] \[ \. \s \- and
\* \" give ] [ . s - and ", and only \\. gives \. to the RegExp constructor.
\* The pattern RegExp compiles is therefore
\*   ^(([^<>()[]\.,;:s@"]+(.[^<>()[]\.,;:s@"]+)*)|(".+"))
\*   @(([[0-9]{1,3}.[0-9]{1,3}.[0-9]{1,3}.[0-9]{1,3}])|(([a-zA-Z-0-9]+.)+[a-zA-Z]{2,}))$
\* where [^<>()[] and [[0-9] are character classes closed by their first ],
\* the ] after them is a literal, and an unescaped . is any character but a
\* line terminator.  A matcher maps the set P of positions it may start at
\* to the set of positions it may end at.
LineTerminators == {"\n", "\r"}

\* a character class: the characters it lists, and whether it is negated
Class(chars) == [neg |-> FALSE, chars |-> chars]
NotClass(chars) == [neg |-> TRUE, chars |-> chars]
Char(ch) == Class({ch})
InClass(cls, ch) == (ch \in cls.chars) # cls.neg

IsAny == NotClass(LineTerminators)
IsLocalClass == NotClass({"<", ">", "(", ")", "["})
IsDigit == Class(DigitChars)
IsIpFirstClass == Class({"["} \cup DigitChars)
IsLetter == Class(Range(LowerLetters) \cup Range(UpperLetters))
IsHostClass == Class(IsLetter.chars \cup DigitChars \cup {"-"})

\* one character of the class
Take(str, P, cls) == {p + 1 : p \in {q \in P : q <= Len(str) /\ InClass(cls, str[q])}}

\* one or more characters of the class
TakePlus(str, P, cls) ==
  {e \in 2..(Len(str) + 1) :
     \E p \in P : p < e /\ \A q \in p..(e - 1) : InClass(cls, str[q])}

\* {1,3}
TakeUpTo3(str, P, cls) ==
  Take(str, P, cls) \cup Take(str, Take(str, P, cls), cls)
    \cup Take(str, Take(str, Take(str, P, cls), cls), cls)

\* the literal characters of text, one after the other
RECURSIVE TakeText(_, _, _)
TakeText(str, P, text) ==
  IF text = <<>> THEN P
  ELSE TakeText(str, Take(str, P, Char(Head(text))), Tail(text))

\* [^<>()[]\.,;:s@"]+
LocalAtom(str, P) ==
  TakePlus(str, TakeText(str, Take(str, P, IsLocalClass), <<".", ",", ";", ":", "s", "@", "\"">>),
           Char("]"))

\* (.[^<>()[]\.,;:s@"]+)*
RECURSIVE LocalRest(_, _)
LocalRest(str, P) ==
  LET Q == P \cup LocalAtom(str, Take(str, P, IsAny))
  IN IF Q = P THEN P ELSE LocalRest(str, Q)

\* (".+")
QuotedLocal(str, P) ==
  Take(str, TakePlus(str, Take(str, P, Char("\"")), IsAny), Char("\""))

\* ([[0-9]{1,3}.[0-9]{1,3}.[0-9]{1,3}.[0-9]{1,3}])
IpDomain(str, P) ==
  LET a == Take(str, TakeUpTo3(str, P, IsIpFirstClass), IsAny)
      b == Take(str, TakeUpTo3(str, a, IsDigit), IsAny)
      c == Take(str, TakeUpTo3(str, b, IsDigit), IsAny)
  IN Take(str, TakeUpTo3(str, c, IsDigit), Char("]"))

\* ([a-zA-Z-0-9]+.)+
RECURSIVE HostLabels(_, _)
HostLabels(str, P) ==
  LET Q == P \cup Take(str, TakePlus(str, P, IsHostClass), IsAny)
  IN IF Q = P THEN P ELSE HostLabels(str, Q)

\* (([a-zA-Z-0-9]+.)+[a-zA-Z]{2,})
HostDomain(str, P) ==
  LET labels == HostLabels(str, Take(str, TakePlus(str, P, IsHostClass), IsAny))
  IN TakePlus(str, Take(str, labels, IsLetter), IsLetter)

\* RegExp.prototype.test on the characters of a string: ^ ... $
EmailPattern(str) ==
  LET local == LocalRest(str, LocalAtom(str, {1})) \cup QuotedLocal(str, {1})
      at == Take(str, local, Char("@"))
  IN (Len(str) + 1) \in (IpDomain(str, at) \cup HostDomain(str, at))

\* Validation.isEmail: test() converts its argument to a string
isEmail(val) == EmailPattern(ToChars(val))

\* ------------------------------------------------------------------- state
Forms == {1, 2}     \* form validators (createForm results)
Slots == {1, 2}     \* async calls that may be in flight

VARIABLES
  now,          \* the wall clock (read by moment(undefined))
  input,        \* input[f]: content of the mapping object form f references
  snapshot,     \* snapshot[f]: what that mapping held when createForm ran
  created,      \* created[f]: createForm has returned form f
  fields,       \* fields[f]: keys of this.fields, in insertion order
  fvId,         \* fvId[f][name]: identity of the FieldValidator under that key
  fieldLabel,   \* fieldLabel[f][name]
  rules,        \* rules[f][name]: the rule objects of this.rules, in insertion order
  errors,       \* errors[f][name]: the array this.errors refers to
  fieldErrors,  \* fieldErrors[f]: the map this.fieldErrors refers to
  arrays,       \* heap of FieldValidationError[] arrays
  maps,         \* heap of fieldErrors maps: [ins: keys in insertion order, at: key -> array]
  calls,        \* calls[c]: the async call in slot c
  first,        \* first[f][name]: identity and label at the first field(name), and the
                \* label argument of the latest field(name)
  attached,     \* attached[f][name]: the rule names attached, each with the arguments
                \* of its latest attachment
  prev,         \* prev[f]: outcome of the last validate() that resolved, kept until
                \* the application does anything else with form f
  res,          \* the HTTP response the error handler gave to the request
  upFile,         \* an UploadedFile: name, path, size and the flags moved, processing
  fsOps,        \* the fs.rename and fs.unlink operations in flight for the file
  last,         \* what the latest move() or deleteTempFile() call, or the latest
                \* completion of an fs operation, came to
  renames,      \* whether a rename of the file has succeeded, and whether one failed
  req,          \* the request the body parser has handled
  kept          \* the error map the application kept a reference to, and what
                \* the map held when the application got it

heapVars == <<arrays, maps>>
formVars == <<created, fields, fvId, fieldLabel, rules, errors, fieldErrors>>
envVars == <<now, input, snapshot>>
ghostVars == <<first, attached, prev>>
webVars == <<res, upFile, fsOps, last, renames, req>>
vars == <<envVars, formVars, heapVars, calls, ghostVars, webVars, kept>>

NoCall ==
  [pc |-> "idle", kind |-> "none", form |-> 0, valid |-> TRUE, fkeys |-> <<>>, fi |-> 0,
   field |-> "", rkeys |-> <<>>, ri |-> 0, pending |-> {}, log |-> <<>>,
   result |-> FALSE, thrown |-> [fields |-> 0, message |-> ""], cmp |-> [has |-> FALSE],
   rejectedBy |-> ""]

InFlight(c) == calls[c].pc \in {"awaitPred", "awaitCheck", "awaitValidate"}
Quiet == \A c \in Slots : ~InFlight(c)

NoPrev == [has |-> FALSE]

\* The application keeps no error map.
NoKept == [has |-> FALSE, from |-> "", map |-> 0, value |-> <<>>]

\* No UploadedFile was constructed yet, and no call made on it.
NoFile == [made |-> FALSE, name |-> "", path |-> <<>>, size |-> 0,
           moved |-> FALSE, processing |-> FALSE]
NoOutcome == [op |-> "none", result |-> "none"]
NoRenames == [succeeded |-> FALSE, failed |-> FALSE]

\* No request went through the body parser yet.
NoRequest == [parsed |-> FALSE]

\* No response was sent yet.
NoResponse == [sent |-> "none"]

Init ==
  /\ now = 1
  /\ input = [f \in Forms |-> [n \in Keys |-> Undefined]]
  /\ snapshot = [f \in Forms |-> [n \in Keys |-> Undefined]]
  /\ created = [f \in Forms |-> FALSE]
  /\ fields = [f \in Forms |-> <<>>]
  /\ fvId = [f \in Forms |-> [n \in Keys |-> 0]]
  /\ fieldLabel = [f \in Forms |-> [n \in Keys |-> ""]]
  /\ rules = [f \in Forms |-> [n \in Keys |-> <<>>]]
  /\ errors = [f \in Forms |-> [n \in Keys |-> 0]]
  /\ fieldErrors = [f \in Forms |-> 0]
  /\ arrays = <<>>
  /\ maps = <<>>
  /\ calls = [c \in Slots |-> NoCall]
  /\ first = [f \in Forms |-> [n \in Keys |-> [id |-> 0, label |-> "", lastArg |-> ""]]]
  /\ attached = [f \in Forms |-> [n \in Keys |-> {}]]
  /\ prev = [f \in Forms |-> NoPrev]
  /\ res = NoResponse
  /\ upFile = NoFile
  /\ fsOps = <<>>
  /\ last = NoOutcome
  /\ renames = NoRenames
  /\ req = NoRequest
  /\ kept = NoKept

\* -------------------------------------------------------------------- heap
\* An object no reference reaches is garbage, and an object's place in the
\* heap is nothing a program can see: after every operation the heaps hold
\* the reachable arrays and maps only, in the order they were created.
LiveMaps(fes, cls, kp) ==
  ({fes[f] : f \in Forms} \cup {cls[c].thrown.fields : c \in Slots} \cup {kp.map}) \ {0}

LiveArrays(mps, errs, live) ==
  ({errs[f][n] : f \in Forms, n \in Keys}
     \cup {mps[m].at[n] : m \in live, n \in Keys}) \ {0}

Rank(live, i) == IF i = 0 THEN 0 ELSE Cardinality({j \in live : j <= i})
Unrank(live, k) == CHOOSE i \in live : Rank(live, i) = k

CommitKeeping(arrs, mps, errs, fes, cls, kp) ==
  LET liveM == LiveMaps(fes, cls, kp)
      liveA == LiveArrays(mps, errs, liveM)
  IN /\ arrays' = [k \in 1..Cardinality(liveA) |-> arrs[Unrank(liveA, k)]]
     /\ maps' = [k \in 1..Cardinality(liveM) |->
                   LET old == mps[Unrank(liveM, k)]
                   IN [ins |-> old.ins, at |-> [n \in Keys |-> Rank(liveA, old.at[n])]]]
     /\ errors' = [f \in Forms |-> [n \in Keys |-> Rank(liveA, errs[f][n])]]
     /\ fieldErrors' = [f \in Forms |-> Rank(liveM, fes[f])]
     /\ calls' = [c \in Slots |-> [cls[c] EXCEPT !.thrown.fields = Rank(liveM, @)]]
     /\ kept' = [kp EXCEPT !.map = Rank(liveM, @)]

\* The heaps after an operation that leaves what the application keeps.
Commit(arrs, mps, errs, fes, cls) == CommitKeeping(arrs, mps, errs, fes, cls, kept)

\* -------------------------------------------------------------- accessors
\* FormValidator.getInput(key)
getInput(f, key) == input[f][key]

\* FieldValidator.getErrors() / hasErrors()
FieldGetErrors(f, name) == arrays[errors[f][name]]
FieldHasErrors(f, name) == IF Len(FieldGetErrors(f, name)) # 0 THEN TRUE ELSE FALSE

EmptyMap == [ins |-> <<>>, at |-> [n \in Keys |-> 0]]

\* The content of map m in the heaps mps and arrs as Object.keys / for...in
\* shows it: its keys in enumeration order, each with the records of its array.
MapValueIn(mps, arrs, m) ==
  LET keys == OwnKeys(mps[m].ins)
  IN [i \in 1..Len(keys) |-> [field |-> keys[i], errors |-> arrs[mps[m].at[keys[i]]]]]

MapValue(m) == MapValueIn(maps, arrays, m)

\* FormValidator.getErrors() / hasErrors()
getErrors(f) == MapValue(fieldErrors[f])
hasErrors(f) == Len(OwnKeys(maps[fieldErrors[f]].ins)) > 0

\* The application goes on with form f: the results of the calls on f that
\* have settled are no longer looked at.
Consumed(f) ==
  [c \in Slots |-> IF calls[c].form = f /\ ~InFlight(c) THEN NoCall ELSE calls[c]]

\* ------------------------------------------------------ caller arguments
NoMessage == <<>>
CustomMessage == <<Ph("label"), Lit(" is wrong")>>
MissingKeyMessage == <<Ph("label"), Lit(" must be after "), Ph("date")>>
MessageArgs == {NoMessage, CustomMessage, MissingKeyMessage}
LabelArgs == {"", "Label"}
DateArgs == {Num(1), Num(3)}

\* ------------------------------------------------------- FormValidator
\* Validation.createForm(input): the form keeps a reference to `input`.
createForm(f, inp) ==
  /\ ~created[f]
  /\ \A g \in Forms : g < f => created[g]
  /\ created' = [created EXCEPT ![f] = TRUE]
  /\ input' = [input EXCEPT ![f] = inp]
  /\ snapshot' = [snapshot EXCEPT ![f] = inp]
  /\ Commit(arrays, Append(maps, EmptyMap), errors,
            [fieldErrors EXCEPT ![f] = Len(maps) + 1], calls)
  /\ UNCHANGED <<webVars, now, fields, fvId, fieldLabel, rules, ghostVars>>

\* The caller writes a key of the mapping it passed to createForm.
WriteInput(f, key, val) ==
  /\ created[f] /\ Quiet
  /\ input[f][key] # val
  /\ input' = [input EXCEPT ![f][key] = val]
  /\ prev' = [prev EXCEPT ![f] = NoPrev]
  /\ Commit(arrays, maps, errors, fieldErrors, Consumed(f))
  /\ UNCHANGED <<webVars, now, snapshot, created, fields, fvId, fieldLabel, rules, first, attached>>

\* FieldMissing that looks the name up in a registry all form validators share.
FieldMissing_AnyForm(f, fieldName) == \A g \in {1, 2} : fieldName \notin Range(fields[g])

\* FieldMissing that never finds the field: field() constructs every time.
FieldMissing_Always(f, fieldName) == TRUE

\* `!this.fields[fieldName]` of field()
FieldMissing(f, fieldName) == fieldName \notin Range(fields[f])

\* The identity of a FieldValidator constructed now.
NewId ==
  1 + CHOOSE m \in {fvId[f][n] : f \in Forms, n \in Keys} :
        \A k \in {fvId[f][n] : f \in Forms, n \in Keys} : k <= m

\* FormValidator.field(fieldName, fieldLabel): constructs the FieldValidator
\* on the first reference and returns the one it holds afterwards.
field(f, fieldName, label) ==
  /\ created[f] /\ Quiet
  /\ IF FieldMissing(f, fieldName)
     THEN /\ Cardinality(Range(fields[f]) \cup {fieldName}) <= MaxFields
          /\ fields' = [fields EXCEPT ![f] =
                          IF fieldName \in Range(@) THEN @ ELSE Append(@, fieldName)]
          /\ fvId' = [fvId EXCEPT ![f][fieldName] = NewId]
          /\ fieldLabel' = [fieldLabel EXCEPT ![f][fieldName] =
                              IF label # "" THEN label ELSE lowerCase(fieldName)]
          /\ rules' = [rules EXCEPT ![f][fieldName] = <<>>]
          /\ Commit(Append(arrays, <<>>), maps,
                    [errors EXCEPT ![f][fieldName] = Len(arrays) + 1], fieldErrors, Consumed(f))
     ELSE /\ Commit(arrays, maps, errors, fieldErrors, Consumed(f))
          /\ UNCHANGED <<webVars, fields, fvId, fieldLabel, rules>>
  /\ first' = [first EXCEPT ![f][fieldName] =
                 IF @.id = 0
                 THEN [id |-> fvId'[f][fieldName], label |-> fieldLabel'[f][fieldName],
                       lastArg |-> label]
                 ELSE [@ EXCEPT !.lastArg = label]]
  /\ prev' = [prev EXCEPT ![f] = NoPrev]
  /\ UNCHANGED <<webVars, envVars, created, attached>>

\* -------------------------------------------------------- FieldValidator
\* SetRule that takes the rule out and puts the new one last.
SetRule_MoveToEnd(rs, rule) ==
  Append(SelectSeq(rs, LAMBDA r : r.name # rule.name), rule)

\* SetRule that adds the rule without looking for its name.
SetRule_Append(rs, rule) == Append(rs, rule)

\* this.rules[name] = rule: a new key goes last, a key the object already has
\* keeps its place and gets the new value.
SetRule(rs, rule) ==
  IF \E i \in 1..Len(rs) : rs[i].name = rule.name
  THEN [i \in 1..Len(rs) |-> IF rs[i].name = rule.name THEN rule ELSE rs[i]]
  ELSE Append(rs, rule)

\* for (let rule in this.rules): the rule names in enumeration order.
RuleNames(f, fieldName) ==
  OwnKeys([i \in 1..Len(rules[f][fieldName]) |-> rules[f][fieldName][i].name])

\* this.rules[ruleName]
RuleOf(f, fieldName, ruleName) ==
  CHOOSE r \in Range(rules[f][fieldName]) : r.name = ruleName

RECURSIVE SumLen(_, _)
SumLen(f, names) ==
  IF names = {} THEN 0
  ELSE LET n == CHOOSE x \in names : TRUE
       IN Len(rules[f][n]) + SumLen(f, names \ {n})

TotalRules(f) == SumLen(f, Keys)

\* The rules the field held besides this one when the rule was last attached
\* again with other arguments than before.
ReplacedOver(f, fieldName, args) ==
  LET old == {a \in attached[f][fieldName] : a.name = args.name}
  IN IF \E a \in old : a.message # args.message \/ a.date # args.date
     THEN {r.name : r \in Range(rules[f][fieldName])} \ {args.name}
     ELSE UNION {a.over : a \in old}

\* A rule method of the FieldValidator of fieldName stores `rule` under its
\* name; args are the arguments of the call.
Attach(f, fieldName, rule, args) ==
  /\ created[f] /\ Quiet
  /\ fieldName \in Range(fields[f])
  /\ \/ \E r \in Range(rules[f][fieldName]) : r.name = rule.name
     \/ TotalRules(f) < MaxRules
  /\ rules' = [rules EXCEPT ![f][fieldName] = SetRule(@, rule)]
  /\ attached' = [attached EXCEPT ![f][fieldName] =
                    {a \in @ : a.name # rule.name}
                      \cup {[args EXCEPT !.replaced =
                                \E a \in attached[f][fieldName] :
                                  /\ a.name = rule.name
                                  /\ (a.replaced \/ a.message # args.message \/ a.date # args.date)]
                              @@ [over |-> ReplacedOver(f, fieldName, args)]}]
  /\ prev' = [prev EXCEPT ![f] = NoPrev]
  /\ Commit(arrays, maps, errors, fieldErrors, Consumed(f))
  /\ UNCHANGED <<webVars, envVars, created, fields, fvId, fieldLabel, first>>

\* FieldValidator.required(message)
RequiredRule(f, fieldName, message) ==
  [name |-> "required", async |-> FALSE, date |-> InvalidMoment,
   message |-> IF message # NoMessage THEN message ELSE RULE_MESSAGES("required"),
   attrs |-> [label |-> fieldLabel[f][fieldName]]]

required(f, fieldName, message) ==
  Attach(f, fieldName, RequiredRule(f, fieldName, message),
         [name |-> "required", message |-> message, date |-> InvalidMoment, replaced |-> FALSE])

\* FieldValidator.after(date, message): the bound is made a moment here.
AfterRule(f, fieldName, date, message) ==
  LET bound == moment(date, now)
  IN [name |-> "after", async |-> FALSE, date |-> bound,
      message |-> IF message # NoMessage THEN message ELSE RULE_MESSAGES("after"),
      attrs |-> [label |-> fieldLabel[f][fieldName], date |-> MomentToString(bound)]]

after(f, fieldName, date, message) ==
  Attach(f, fieldName, AfterRule(f, fieldName, date, message),
         [name |-> "after", message |-> message, date |-> moment(date, now), replaced |-> FALSE])

\* A rule whose predicate is asynchronous (ValidationRule.async), such as a
\* uniqueness check against a backing store.
UniqueRule(f, fieldName, message) ==
  [name |-> "unique", async |-> TRUE, date |-> InvalidMoment,
   message |-> IF message # NoMessage THEN message ELSE RULE_MESSAGES("unique"),
   attrs |-> [label |-> fieldLabel[f][fieldName]]]

unique(f, fieldName, message) ==
  Attach(f, fieldName, UniqueRule(f, fieldName, message),
         [name |-> "unique", message |-> message, date |-> InvalidMoment, replaced |-> FALSE])

\* EmailRule with the default message of another rule.
EmailRule_RequiredMessage(f, fieldName, message) ==
  [name |-> "email", async |-> FALSE, date |-> InvalidMoment,
   message |-> IF message # NoMessage THEN message ELSE RULE_MESSAGES("required"),
   attrs |-> [label |-> fieldLabel[f][fieldName]]]

\* FieldValidator.email(message)
EmailRule(f, fieldName, message) ==
  [name |-> "email", async |-> FALSE, date |-> InvalidMoment,
   message |-> IF message # NoMessage THEN message ELSE RULE_MESSAGES("email"),
   attrs |-> [label |-> fieldLabel[f][fieldName]]]

email(f, fieldName, message) ==
  Attach(f, fieldName, EmailRule(f, fieldName, message),
         [name |-> "email", message |-> message, date |-> InvalidMoment, replaced |-> FALSE])

\* FieldValidator.accepted(message)
AcceptedRule(f, fieldName, message) ==
  [name |-> "accepted", async |-> FALSE, date |-> InvalidMoment,
   message |-> IF message # NoMessage THEN message ELSE RULE_MESSAGES("accepted"),
   attrs |-> [label |-> fieldLabel[f][fieldName]]]

accepted(f, fieldName, message) ==
  Attach(f, fieldName, AcceptedRule(f, fieldName, message),
         [name |-> "accepted", message |-> message, date |-> InvalidMoment, replaced |-> FALSE])

\* The rule object of afterOrEqual, before and beforeOrEqual (ruleName),
\* built as the one of after.
DateRule(f, fieldName, ruleName, date, message) ==
  LET bound == moment(date, now)
  IN [name |-> ruleName, async |-> FALSE, date |-> bound,
      message |-> IF message # NoMessage THEN message ELSE RULE_MESSAGES(ruleName),
      attrs |-> [label |-> fieldLabel[f][fieldName], date |-> MomentToString(bound)]]

\* FieldValidator.afterOrEqual(date, message)
afterOrEqual(f, fieldName, date, message) ==
  Attach(f, fieldName, DateRule(f, fieldName, "afterOrEqual", date, message),
         [name |-> "afterOrEqual", message |-> message, date |-> moment(date, now),
          replaced |-> FALSE])

\* FieldValidator.before(date, message)
before(f, fieldName, date, message) ==
  Attach(f, fieldName, DateRule(f, fieldName, "before", date, message),
         [name |-> "before", message |-> message, date |-> moment(date, now),
          replaced |-> FALSE])

\* FieldValidator.beforeOrEqual(date, message)
beforeOrEqual(f, fieldName, date, message) ==
  Attach(f, fieldName, DateRule(f, fieldName, "beforeOrEqual", date, message),
         [name |-> "beforeOrEqual", message |-> message, date |-> moment(date, now),
          replaced |-> FALSE])

\* The predicate of a synchronous rule on the value val of its field.
HandleValue(val, rule, clock) ==
  CASE rule.name = "required" -> ~isEmpty(val)
    [] rule.name = "after" -> isAfter(val, rule.date, clock)
    [] rule.name = "afterOrEqual" -> isAfterOrEqual(val, rule.date, clock)
    [] rule.name = "before" -> isBefore(val, rule.date, clock)
    [] rule.name = "beforeOrEqual" -> isBeforeOrEqual(val, rule.date, clock)
    [] rule.name = "email" -> isEmail(val)
    [] rule.name = "accepted" -> isAccepted(val)

\* rule.handle.call(this): the value is read from the form's input now.
Handle(f, fieldName, rule) == HandleValue(getInput(f, fieldName), rule, now)

\* addError that records nothing when the message names a key attrs lacks.
addError_Strict(errs, ruleName, message, attrs) ==
  IF \A i \in 1..Len(message) : message[i].ph => message[i].v \in DOMAIN attrs
  THEN Append(errs, [rule |-> ruleName, message |-> template(message, attrs)])
  ELSE errs

\* FieldValidator.addError(ruleName, message, attrs) on the array errs
addError(errs, ruleName, message, attrs) ==
  Append(errs, [rule |-> ruleName, message |-> template(message, attrs)])

\* The public addError, called by the application on a field it holds.
ManualError(f, fieldName) ==
  /\ created[f] /\ Quiet
  /\ fieldName \in Range(fields[f])
  /\ Len(SelectSeq(FieldGetErrors(f, fieldName), LAMBDA e : e.rule = "manual")) < MaxPushes
  /\ prev' = [prev EXCEPT ![f] = NoPrev]
  /\ Commit([arrays EXCEPT ![errors[f][fieldName]] =
               addError(@, "manual", <<Lit("manual for "), Ph("label")>>,
                        [label |-> fieldLabel[f][fieldName]])],
            maps, errors, fieldErrors, Consumed(f))
  /\ UNCHANGED <<webVars, envVars, created, fields, fvId, fieldLabel, rules, first, attached>>

\* ResetErrors that keeps the records of the check before.
ResetErrors_Keep(old) == old

\* `this.errors = []` of check(): the array check() starts from.
ResetErrors(old) == <<>>

\* RunRules that leaves the loop at the first failure.
RECURSIVE RunRules_ShortCircuit(_, _, _, _, _, _)
RunRules_ShortCircuit(f, fieldName, keys, i, errs, log) ==
  IF i > Len(keys) \/ errs # <<>>
  THEN [errs |-> errs, log |-> log, at |-> Len(keys) + 1, pending |-> {}]
  ELSE LET rule == CHOOSE r \in Range(rules[f][fieldName]) : r.name = keys[i]
       IN IF rule.async
          THEN [errs |-> errs, log |-> log, at |-> i, pending |-> {keys[i]}]
          ELSE LET pass == HandleValue(getInput(f, fieldName), rule, now)
               IN RunRules_ShortCircuit(f, fieldName, keys, i + 1,
                    IF ~pass THEN addError(errs, keys[i], rule.message, rule.attrs) ELSE errs,
                    Append(log, [field |-> fieldName, rule |-> keys[i], pass |-> pass]))

\* RunRules without the await: an asynchronous predicate is started, the
\* promise it returns is taken for its result, and the loop goes on.
RECURSIVE RunRulesNoAwait(_, _, _, _, _, _, _)
RunRulesNoAwait(f, fieldName, keys, i, errs, log, pending) ==
  IF i > Len(keys) THEN [errs |-> errs, log |-> log, at |-> i, pending |-> pending]
  ELSE LET rule == CHOOSE r \in Range(rules[f][fieldName]) : r.name = keys[i]
       IN IF rule.async
          THEN RunRulesNoAwait(f, fieldName, keys, i + 1, errs, log, pending \cup {keys[i]})
          ELSE LET pass == HandleValue(getInput(f, fieldName), rule, now)
               IN RunRulesNoAwait(f, fieldName, keys, i + 1,
                    IF ~pass THEN addError(errs, keys[i], rule.message, rule.attrs) ELSE errs,
                    Append(log, [field |-> fieldName, rule |-> keys[i], pass |-> pass]),
                    pending)

RunRules_NoAwait(f, fieldName, keys, i, errs, log) ==
  RunRulesNoAwait(f, fieldName, keys, i, errs, log, {})

\* The for-loop of check() from the rule at index i on, with errs the content
\* of this.errors: synchronous predicates are evaluated on the spot; at an
\* asynchronous rule the predicate is started and the loop is suspended
\* (`at` is its index, `pending` holds it).  at > Len(keys): the loop ended.
RECURSIVE RunRules(_, _, _, _, _, _)
RunRules(f, fieldName, keys, i, errs, log) ==
  IF i > Len(keys) THEN [errs |-> errs, log |-> log, at |-> i, pending |-> {}]
  ELSE LET rule == RuleOf(f, fieldName, keys[i])
       IN IF rule.async
          THEN [errs |-> errs, log |-> log, at |-> i, pending |-> {keys[i]}]
          ELSE LET pass == Handle(f, fieldName, rule)
               IN RunRules(f, fieldName, keys, i + 1,
                           IF ~pass THEN addError(errs, keys[i], rule.message, rule.attrs)
                           ELSE errs,
                           Append(log, [field |-> fieldName, rule |-> keys[i], pass |-> pass]))

\* What a call record becomes when check() is left at the state r of its loop.
AtRules(rec, fieldName, keys, r) ==
  [rec EXCEPT !.field = fieldName, !.rkeys = keys, !.ri = r.at, !.log = r.log,
              !.pending = r.pending,
              !.pc = IF r.at <= Len(keys) THEN "awaitPred"
                     ELSE IF rec.kind = "check" THEN "done" ELSE "awaitCheck",
              !.result = IF Len(r.errs) # 0 THEN TRUE ELSE FALSE]

\* StoreErrors without its test: the field's array is stored in any case.
StoreErrors_Always(map, fieldName, has, arr) ==
  [ins |-> IF fieldName \in Range(map.ins) THEN map.ins ELSE Append(map.ins, fieldName),
   at |-> [map.at EXCEPT ![fieldName] = arr]]

\* `valid` and the stored entry after one field's check, in validate():
\* the field's array is stored under its name only when it holds errors.
StoreErrors(map, fieldName, has, arr) ==
  IF has
  THEN [ins |-> IF fieldName \in Range(map.ins) THEN map.ins ELSE Append(map.ins, fieldName),
        at |-> [map.at EXCEPT ![fieldName] = arr]]
  ELSE map

\* FreshMap that keeps the entries of the map before.
FreshMap_Keep(old) == old

\* `this.fieldErrors = {}` of validate(): the map validate() starts from.
FreshMap(old) == EmptyMap

\* The outcome of a validate() that resolved, as its caller sees it.
Outcome(rec, value) ==
  [has |-> TRUE, result |-> rec.valid, errs |-> value,
   passes |-> [i \in 1..Len(rec.log) |-> rec.log[i].pass]]

\* Proceed whose check() empties the field's array in place instead of
\* assigning a new one.
Proceed_InPlace(rec, j) ==
  LET f == rec.form
  IN IF j > Len(rec.fkeys)
     THEN [arrays |-> arrays, errors |-> errors, returned |-> TRUE,
           call |-> [rec EXCEPT !.fi = j, !.result = rec.valid,
                                !.pc = IF rec.kind = "validate" THEN "done"
                                       ELSE "awaitValidate",
                                !.cmp = prev[f]]]
     ELSE LET fieldName == rec.fkeys[j]
              keys == RuleNames(f, fieldName)
              r == RunRules(f, fieldName, keys, 1, <<>>, rec.log)
          IN [arrays |-> [arrays EXCEPT ![errors[f][fieldName]] = r.errs],
              errors |-> errors,
              returned |-> FALSE,
              call |-> AtRules([rec EXCEPT !.fi = j], fieldName, keys, r)]

\* The for-loop of validate() at the field of index j: check() of that field
\* is entered and runs to its first await (its `this.errors = []` is a new
\* array), or the loop is over and validate() returns `valid`.
Proceed(rec, j) ==
  LET f == rec.form
  IN IF j > Len(rec.fkeys)
     THEN [arrays |-> arrays, errors |-> errors, returned |-> TRUE,
           call |-> [rec EXCEPT !.fi = j, !.result = rec.valid,
                                !.pc = IF rec.kind = "validate" THEN "done"
                                       ELSE "awaitValidate",
                                !.cmp = prev[f]]]
     ELSE LET fieldName == rec.fkeys[j]
              keys == RuleNames(f, fieldName)
              r == RunRules(f, fieldName, keys, 1,
                            ResetErrors(FieldGetErrors(f, fieldName)), rec.log)
          IN [arrays |-> Append(arrays, r.errs),
              errors |-> [errors EXCEPT ![f][fieldName] = Len(arrays) + 1],
              returned |-> FALSE,
              call |-> AtRules([rec EXCEPT !.fi = j], fieldName, keys, r)]

\* The slot a new call takes: the lowest one with no call in flight.
FreeSlot(c) == ~InFlight(c) /\ \A d \in Slots : d < c => InFlight(d)

\* FormValidator.validate() (kind "validate") or validateAndThrow(), called:
\* it runs up to the first await.  overlap: the caller does not wait for the
\* calls in flight.
StartValidate(f, kind, overlap) ==
  \E c \in Slots :
    /\ FreeSlot(c)
    /\ created[f] /\ (overlap \/ Quiet)
    /\ LET mps == Append(maps, FreshMap(maps[fieldErrors[f]]))
           m == Len(maps) + 1
           p == Proceed([NoCall EXCEPT !.kind = kind, !.form = f, !.valid = TRUE,
                                       !.fkeys = OwnKeys(fields[f])], 1)
       IN /\ Commit(p.arrays, mps, p.errors, [fieldErrors EXCEPT ![f] = m],
                    [Consumed(f) EXCEPT ![c] = p.call])
          /\ prev' = IF p.returned
                     THEN [prev EXCEPT ![f] = Outcome(p.call, MapValueIn(mps, p.arrays, m))]
                     ELSE prev
    /\ UNCHANGED <<webVars, envVars, created, fields, fvId, fieldLabel, rules, first, attached>>

validate(f) == StartValidate(f, "validate", FALSE)
validateAndThrow(f) == StartValidate(f, "validateAndThrow", FALSE)

\* validate() resumes after `await this.fields[fieldName].check()`.
Resume(c) ==
  LET rec == calls[c]
      f == rec.form
      has == FieldHasErrors(f, rec.field)
      mps == [maps EXCEPT ![fieldErrors[f]] =
                StoreErrors(@, rec.field, has, errors[f][rec.field])]
      p == Proceed([rec EXCEPT !.valid = IF has THEN FALSE ELSE @], rec.fi + 1)
  IN /\ rec.pc = "awaitCheck"
     /\ Commit(p.arrays, mps, p.errors, fieldErrors, [calls EXCEPT ![c] = p.call])
     /\ prev' = IF p.returned
                THEN [prev EXCEPT ![f] = Outcome(p.call, MapValueIn(mps, p.arrays, fieldErrors[f]))]
                ELSE prev
     /\ UNCHANGED <<webVars, envVars, created, fields, fvId, fieldLabel, rules, first, attached>>

\* ShouldThrow with the test inverted.
ShouldThrow_Inverted(valid) == valid

\* `!(await this.validate())` of validateAndThrow()
ShouldThrow(valid) == ~valid

\* new FormValidationError(fields, message): `message || 'Invalid form input'`
FormValidationError(fieldsMap, message) ==
  [fields |-> fieldsMap, message |-> IF message # "" THEN message ELSE "Invalid form input"]

\* What a function returns when it returns nothing, or a string.
NoString == [some |-> FALSE, v |-> ""]
SomeString(str) == [some |-> TRUE, v |-> str]

\* FormValidationError.getFirstMessage(fieldName) of the error err
getFirstMessage(err, fieldName) ==
  LET map == maps[err.fields]
  IN IF fieldName \notin Range(map.ins) \/ Len(arrays[map.at[fieldName]]) = 0
     THEN NoString
     ELSE SomeString(arrays[map.at[fieldName]][1].message)

\* Array.prototype.join(mergeToken) on strings
RECURSIVE Join(_, _)
Join(strings, mergeToken) ==
  IF strings = <<>> THEN ""
  ELSE IF Len(strings) = 1 THEN strings[1]
  ELSE strings[1] \o mergeToken \o Join(Tail(strings), mergeToken)

\* The messages of the entries of an error map value, entry after entry.
RECURSIVE Messages(_)
Messages(value) ==
  IF value = <<>> THEN <<>>
  ELSE [k \in 1..Len(Head(value).errors) |-> Head(value).errors[k].message]
         \o Messages(Tail(value))

\* FormValidationError.getCompiledMessage(mergeToken) of the error err: the
\* two for loops push the messages, in the order for...in enumerates fields.
getCompiledMessage(err, mergeToken) == Join(Messages(MapValue(err.fields)), mergeToken)

\* The default of mergeToken
DefaultMergeToken == "\n"

\* validateAndThrow() resumes after `await this.validate()`.
FinishThrow(c) ==
  LET rec == calls[c]
  IN /\ rec.pc = "awaitValidate"
     /\ calls' = [calls EXCEPT ![c] =
                    IF ShouldThrow(rec.result)
                    THEN [rec EXCEPT !.pc = "thrown",
                                     !.thrown = FormValidationError(fieldErrors[rec.form], "")]
                    ELSE [rec EXCEPT !.pc = "done"]]
     /\ UNCHANGED <<webVars, kept, envVars, formVars, heapVars, ghostVars>>

\* FieldValidator.check() called by the application on a field it holds.
check(f, fieldName) ==
  \E c \in Slots :
    /\ FreeSlot(c)
    /\ created[f] /\ Quiet
    /\ fieldName \in Range(fields[f])
    /\ LET keys == RuleNames(f, fieldName)
           r == RunRules(f, fieldName, keys, 1,
                         ResetErrors(FieldGetErrors(f, fieldName)), <<>>)
       IN Commit(Append(arrays, r.errs), maps,
                 [errors EXCEPT ![f][fieldName] = Len(arrays) + 1], fieldErrors,
                 [Consumed(f) EXCEPT ![c] =
                    AtRules([NoCall EXCEPT !.kind = "check", !.form = f],
                            fieldName, keys, r)])
    /\ prev' = [prev EXCEPT ![f] = NoPrev]
    /\ UNCHANGED <<webVars, envVars, created, fields, fvId, fieldLabel, rules, first, attached>>

\* AfterAwait that takes no notice of what the predicate resolved to.
AfterAwait_Dropped(errs, pass, rule) == errs

\* `if (!pass) this.addError(...)` of check(), after `pass = await handle()`.
AfterAwait(errs, pass, rule) ==
  IF ~pass THEN addError(errs, rule.name, rule.message, rule.attrs) ELSE errs

\* The asynchronous predicate a check() awaits resolves to `pass`.
Settle(c, pass) ==
  LET rec == calls[c]
      f == rec.form
      ruleName == rec.rkeys[rec.ri]
      rule == RuleOf(f, rec.field, ruleName)
      arr == errors[f][rec.field]
      r == RunRules(f, rec.field, rec.rkeys, rec.ri + 1,
                    AfterAwait(arrays[arr], pass, rule),
                    Append(rec.log, [field |-> rec.field, rule |-> ruleName, pass |-> pass]))
  IN /\ rec.pc = "awaitPred"
     /\ arrays' = [arrays EXCEPT ![arr] = r.errs]
     /\ calls' = [calls EXCEPT ![c] = AtRules(rec, rec.field, rec.rkeys, r)]
     /\ UNCHANGED <<webVars, kept, envVars, formVars, maps, ghostVars>>

\* The error a predicate throws or rejects with: no validation error.
PredicateError == [fields |-> 0, message |-> "predicate error"]

\* RejectedCall that catches the error and throws a validation error instead.
RejectedCall_Wrapped(rec) ==
  [rec EXCEPT !.pc = "thrown", !.pending = {},
              !.thrown = FormValidationError(fieldErrors[rec.form], "")]

\* A call whose check() is left by the error of `await handle()`: nothing
\* catches it in check(), validate() or validateAndThrow(), so the call
\* rejects with that error.
RejectedCall(rec) ==
  [rec EXCEPT !.pc = "rejected", !.pending = {}, !.thrown = PredicateError]

\* The asynchronous predicate a check() awaits rejects: check() rejects, and
\* so do the validate() and validateAndThrow() awaiting it.
Reject(c) ==
  LET rec == calls[c]
  IN /\ rec.pc = "awaitPred"
     /\ calls' = [calls EXCEPT ![c] =
                    [RejectedCall(rec) EXCEPT !.rejectedBy = rec.rkeys[rec.ri]]]
     /\ prev' = [prev EXCEPT ![rec.form] = NoPrev]
     /\ UNCHANGED <<webVars, kept, envVars, formVars, heapVars, first, attached>>

\* The application keeps the map getErrors() returns after a validate() or
\* validateAndThrow() of form f has settled (from = "getErrors"), or the
\* `fields` of the FormValidationError it caught (from = "error").
Keep(f, from) ==
  /\ created[f] /\ Quiet
  /\ \E c \in Slots :
       /\ calls[c].form = f
       /\ IF from = "error" THEN calls[c].pc = "thrown"
          ELSE calls[c].kind \in {"validate", "validateAndThrow"}
                 /\ calls[c].pc \in {"done", "thrown"}
       /\ LET m == IF from = "error" THEN calls[c].thrown.fields ELSE fieldErrors[f]
          IN CommitKeeping(arrays, maps, errors, fieldErrors, calls,
                           [has |-> TRUE, from |-> from, map |-> m, value |-> MapValue(m)])
  /\ UNCHANGED <<webVars, envVars, created, fields, fvId, fieldLabel, rules, ghostVars>>

\* ------------------------------------------------------ HTTP error handler
\* require('statuses'): the status codes that have a message
STATUSES ==
  [code \in {200, 400, 404, 500} |->
     CASE code = 200 -> "OK"
       [] code = 400 -> "Bad Request"
       [] code = 404 -> "Not Found"
       [] code = 500 -> "Internal Server Error"]

\* err.stack of an Error object
StackTrace == "stack"

\* An Error object: its class, and the fields a FormValidationError has
\* (the value of its map) or the status code an HttpError has.
ErrorObject(class, name, message) ==
  [class |-> class, name |-> name, message |-> message, stack |-> StackTrace,
   fields |-> <<>>, statusCode |-> 0]

\* new HttpError(statusCode, message): the constructor throws a plain Error
\* for a code below 400 and for a code without a message.
HttpError(statusCode, message) ==
  IF statusCode < 400
  THEN ErrorObject("Error", "Error", "HttpError only accepts status codes greater than 400")
  ELSE IF statusCode \notin DOMAIN STATUSES
  THEN ErrorObject("Error", "Error", "HttpError invalid status code")
  ELSE [ErrorObject("HttpError", "Error",
                    IF message # "" THEN message ELSE STATUSES[statusCode])
          EXCEPT !.statusCode = statusCode]

\* The error a validateAndThrow() call threw or rejected with, as an object:
\* a FormValidationError names itself after its class.
ErrorOf(c) ==
  IF calls[c].pc = "thrown"
  THEN [ErrorObject("FormValidationError", "FormValidationError", calls[c].thrown.message)
          EXCEPT !.fields = MapValue(calls[c].thrown.fields)]
  ELSE ErrorObject("Error", "Error", calls[c].thrown.message)

\* app.config.get('app.env')
AppEnvs == {"production", "development", ""}

\* `${res.statusCode}` in the name of the error page
RECURSIVE Concat(_)
Concat(chars) == IF chars = <<>> THEN "" ELSE Head(chars) \o Concat(Tail(chars))

ErrorPage(status) == "errors/" \o Concat(NatToChars(status))

\* Details with the stack in any environment.
Details_AlwaysStack(err, env) ==
  [name |-> err.name, message |-> err.message, stack |-> err.stack]

\* The details the handler starts from: name and message, and the stack
\* unless the app environment is 'production'.
Details(err, env) ==
  IF env # "production"
  THEN [name |-> err.name, message |-> err.message, stack |-> err.stack]
  ELSE [name |-> err.name, message |-> err.message]

\* StatusOf that answers 400 for every error.
StatusOf_Always400(err) == 400

\* The instanceof chain: the status of the response.
StatusOf(err) ==
  IF err.class = "FormValidationError" THEN 400
  ELSE IF err.class = "HttpError" THEN err.statusCode
  ELSE 500

\* The error-handling middleware provideHttpErrorHandler installs, for the
\* error err, the app environment env and what the request accepts.
ErrorResponse(err, env, acceptsJson, acceptsHtml) ==
  LET base == Details(err, env)
      details == IF err.class = "FormValidationError"
                 THEN base @@ [fields |-> err.fields]
                 ELSE base
      status == StatusOf(err)
  IN IF acceptsJson
     THEN [sent |-> "json", status |-> status, body |-> [error |-> details]]
     ELSE IF acceptsHtml
     THEN [sent |-> "render", status |-> status, view |-> ErrorPage(status),
           body |-> [error |-> details]]
     ELSE [sent |-> "send", status |-> status, body |-> details]

\* The middleware runs for an error handed to next(): the response is sent,
\* which ends the request.  req and err are kept with the response.
errorHandler(err, env, acceptsJson, acceptsHtml) ==
  /\ res = NoResponse
  /\ res' = ErrorResponse(err, env, acceptsJson, acceptsHtml)
              @@ [err |-> err, env |-> env, acceptsJson |-> acceptsJson,
                  acceptsHtml |-> acceptsHtml]
  /\ UNCHANGED <<upFile, fsOps, last, renames, req>>
  /\ UNCHANGED <<envVars, formVars, heapVars, calls, ghostVars, kept>>

\* A route hands the error of its validateAndThrow() call to next().
ValidationFailed(env, acceptsJson, acceptsHtml) ==
  \E c \in Slots :
    /\ calls[c].kind = "validateAndThrow" /\ calls[c].pc \in {"thrown", "rejected"}
    /\ errorHandler(ErrorOf(c), env, acceptsJson, acceptsHtml)

\* A route throws new HttpError(statusCode).
HttpStatusCodes == {200, 400, 404, 500, 999}

RouteFailed(statusCode, env, acceptsJson, acceptsHtml) ==
  errorHandler(HttpError(statusCode, ""), env, acceptsJson, acceptsHtml)

\* ------------------------------------------------------------ UploadedFile
\* What the validation engine holds; the web layer leaves it alone.
validationVars == <<envVars, formVars, heapVars, calls, ghostVars, kept>>

MaxPending == 2     \* fs operations in flight at a time

\* Paths are sequences of segments below the root.
\* pathlib.join(destination, name), pathlib.basename and pathlib.resolve of
\* an absolute path
PathJoin(destination, name) == Append(destination, name)
Basename(path) == path[Len(path)]
Resolve(path) == path

\* The files formidable hands over: {name, path, size}
TempFiles ==
  {[name |-> "a.png", path |-> <<"tmp", "upload_1">>, size |-> 1],
   [name |-> "b.txt", path |-> <<"tmp", "upload_2">>, size |-> 2]}

\* new UploadedFile(uploaded)
UploadedFile(uploaded) ==
  [made |-> TRUE, name |-> uploaded.name, path |-> uploaded.path, size |-> uploaded.size,
   moved |-> FALSE, processing |-> FALSE]

Upload(uploaded) ==
  /\ ~upFile.made
  /\ upFile' = UploadedFile(uploaded)
  /\ UNCHANGED <<validationVars, res, fsOps, last, renames, req>>

\* isMovedOrInProcess that looks at the moved flag only.
isMovedOrInProcess_MovedOnly(fl) == fl.moved

\* UploadedFile.isMovedOrInProcess()
isMovedOrInProcess(fl) == fl.moved \/ fl.processing

\* The arguments of move()
Destinations == {<<"srv", "files">>, <<"srv", "img">>}
FileNames == {"", "new.png"}

\* UploadedFile.move(destination, fileName): throws, or sets processing and
\* starts the rename.
move(destination, fileName) ==
  /\ upFile.made
  /\ IF isMovedOrInProcess(upFile)
     THEN /\ last' = [op |-> "move", result |-> "File is already moved or in process"]
          /\ UNCHANGED <<upFile, fsOps>>
     ELSE /\ Len(fsOps) < MaxPending
          /\ upFile' = [upFile EXCEPT !.processing = TRUE]
          /\ fsOps' = Append(fsOps,
                        [op |-> "rename", path |-> upFile.path,
                         destination |-> PathJoin(destination,
                                           IF fileName # "" THEN fileName ELSE upFile.name)])
          /\ last' = [op |-> "move", result |-> "pending"]
  /\ UNCHANGED <<validationVars, res, renames, req>>

\* The sequence without its i-th element.
Without(seq, i) == [k \in 1..(Len(seq) - 1) |-> IF k < i THEN seq[k] ELSE seq[k + 1]]

\* The callback of fs.rename: the i-th operation in flight is over, with an
\* error or without.
RenameDone(i, err) ==
  /\ i \in 1..Len(fsOps) /\ fsOps[i].op = "rename"
  /\ fsOps' = Without(fsOps, i)
  /\ IF err
     THEN /\ upFile' = [upFile EXCEPT !.processing = FALSE]
          /\ last' = [op |-> "rename", result |-> "rejected"]
          /\ renames' = [renames EXCEPT !.failed = TRUE]
     ELSE /\ upFile' = [upFile EXCEPT !.processing = FALSE,
                                  !.name = Basename(fsOps[i].destination),
                                  !.path = Resolve(fsOps[i].destination),
                                  !.moved = TRUE]
          /\ last' = [op |-> "rename", result |-> "true"]
          /\ renames' = [renames EXCEPT !.succeeded = TRUE]
  /\ UNCHANGED <<validationVars, res, req>>

\* UploadedFile.deleteTempFile(): resolves false, or starts the unlink.
deleteTempFile ==
  /\ upFile.made
  /\ IF isMovedOrInProcess(upFile)
     THEN /\ last' = [op |-> "deleteTempFile", result |-> "false"]
          /\ UNCHANGED fsOps
     ELSE /\ Len(fsOps) < MaxPending
          /\ fsOps' = Append(fsOps, [op |-> "unlink", path |-> upFile.path, destination |-> <<>>])
          /\ last' = [op |-> "deleteTempFile", result |-> "pending"]
  /\ UNCHANGED <<validationVars, res, upFile, renames, req>>

\* The callback of fs.unlink
UnlinkDone(i, err) ==
  /\ i \in 1..Len(fsOps) /\ fsOps[i].op = "unlink"
  /\ fsOps' = Without(fsOps, i)
  /\ last' = [op |-> "unlink", result |-> IF err THEN "rejected" ELSE "true"]
  /\ UNCHANGED <<validationVars, res, upFile, renames, req>>

\* -------------------------------------------------------------- body parser
\* What formidable hands over under a key of `files`: nothing, one file, or
\* (form.multiples) the list of the files of a multi-file field.
NoUpload == [t |-> "none", one |-> NoFile, items |-> <<>>]
OneFile(f) == [t |-> "file", one |-> f, items |-> <<>>]
FileList(fs) == [t |-> "array", one |-> NoFile, items |-> fs]

FileKeys == {"avatar", "docs"}

\* The uploads of one field of a request
FieldUploads ==
  {NoUpload}
    \cup {OneFile(f) : f \in TempFiles}
    \cup {FileList(<<pair[1], pair[2]>>) :
            pair \in {p \in TempFiles \X TempFiles : p[1] # p[2]}}

\* bytes.parse(requestConf.uploadMaxSize)
UploadMaxSizes == {1, 2, 3, 4}

\* The value of req._files[key] after the loop of the middleware: for a
\* list, a new empty array whose own elements forEach walks, so that nothing
\* is pushed; for one file, its UploadedFile.
ParsedFile(upload) ==
  CASE upload.t = "array" -> FileList(<<>>)
    [] upload.t = "file" -> OneFile(UploadedFile(upload.one))
    [] OTHER -> NoUpload

\* What the loop adds to totalUploadSize for one key.
CountedSize(upload) ==
  CASE upload.t = "array" -> 0
    [] upload.t = "file" -> UploadedFile(upload.one).size
    [] OTHER -> 0

\* totalUploadSize after the loop over the keys of `files`.
RECURSIVE TotalUploadSize(_, _)
TotalUploadSize(keys, parsed) ==
  IF keys = {} THEN 0
  ELSE LET k == CHOOSE x \in keys : TRUE
       IN CountedSize(parsed[k]) + TotalUploadSize(keys \ {k}, parsed)

\* new Input(req): fileInput is req._files
Input(r) == [fileInput |-> r._files]

\* What file() and files() return: undefined, an UploadedFile, or a list
Nothing == NoUpload

\* Input.file(key)
file(inp, key) ==
  IF inp.fileInput[key].t = "none" THEN Nothing
  ELSE IF inp.fileInput[key].t = "array"
  THEN IF inp.fileInput[key].items = <<>> THEN Nothing
       ELSE OneFile(inp.fileInput[key].items[1])
  ELSE inp.fileInput[key]

\* Input.files(key)
files(inp, key) ==
  IF inp.fileInput[key].t = "none" THEN Nothing
  ELSE IF inp.fileInput[key].t # "array"
  THEN FileList(<<inp.fileInput[key].one>>)
  ELSE inp.fileInput[key]

\* The callback of form.parse in the middleware of provideBodyParser, for
\* the error and the files formidable hands over and the configured limit:
\* it fills req._files, and calls next with an error or attaches req.input.
bodyParser(err, parsed, uploadMaxSize) ==
  /\ ~req.parsed
  /\ LET empty == [key \in FileKeys |-> NoUpload]
         filled == [key \in FileKeys |-> ParsedFile(parsed[key])]
         totalUploadSize == TotalUploadSize(FileKeys, parsed)
         request == [parsed |-> TRUE, uploads |-> parsed, uploadMaxSize |-> uploadMaxSize]
     IN req' = IF err
               THEN request @@ [_files |-> empty, hasInput |-> FALSE,
                                input |-> Input([_files |-> empty]), next |-> "parse error"]
               ELSE IF totalUploadSize > uploadMaxSize
               THEN request @@ [_files |-> filled, hasInput |-> FALSE,
                                input |-> Input([_files |-> filled]),
                                next |-> "Reached upload max size"]
               ELSE request @@ [_files |-> filled, hasInput |-> TRUE,
                                input |-> Input([_files |-> filled]), next |-> ""]
  /\ UNCHANGED <<validationVars, res, upFile, fsOps, last, renames>>

\* --------------------------------------------------------- specifications
Inputs == {[n \in Keys |-> v] : v \in InputValues}

\* The steps of the calls in flight.
Step ==
  \/ \E c \in Slots : Resume(c)
  \/ \E c \in Slots : FinishThrow(c)
  \/ \E c \in Slots, pass \in BOOLEAN : Settle(c, pass)
  \/ \E c \in Slots : Reject(c)

\* One form validator with default labels and messages; the application
\* waits for a call to settle before it does anything else.
Next ==
  \/ \E inp \in Inputs : createForm(1, inp)
  \/ \E n \in Names : field(1, n, "")
  \/ \E n \in Names : required(1, n, NoMessage)
  \/ \E n \in Names : unique(1, n, NoMessage)
  \/ validate(1)
  \/ validateAndThrow(1)
  \/ Step

Spec == Init /\ [][Next]_vars

\* One form validator whose application checks its fields one at a time.
NextCheck ==
  \/ \E inp \in Inputs : createForm(1, inp)
  \/ \E n \in Names : field(1, n, "")
  \/ \E n \in Names : required(1, n, NoMessage)
  \/ \E n \in Names : unique(1, n, NoMessage)
  \/ \E n \in Names : check(1, n)
  \/ \E c \in Slots, pass \in BOOLEAN : Settle(c, pass)
  \/ \E c \in Slots : Reject(c)

SpecCheck == Init /\ [][NextCheck]_vars

\* One form validator whose fields and rules are given every label, message
\* and bound date, and are checked one field at a time.
NextArgs ==
  \/ \E inp \in Inputs : createForm(1, inp)
  \/ \E l \in LabelArgs : field(1, "name", l)
  \/ \E m \in MessageArgs : required(1, "name", m)
  \/ \E d \in DateArgs : after(1, "name", d, NoMessage)
  \/ check(1, "name")

SpecArgs == Init /\ [][NextArgs]_vars

\* One form validator whose application writes to the mapping it passed to
\* createForm.
NextInput ==
  \/ \E inp \in Inputs : createForm(1, inp)
  \/ \E key \in Names, val \in InputValues : WriteInput(1, key, val)
  \/ \E n \in Names : field(1, n, "")
  \/ \E n \in Names : required(1, n, NoMessage)
  \/ validate(1)
  \/ \E c \in Slots : Resume(c)

SpecInput == Init /\ [][NextInput]_vars

\* Two form validators of one Validation service, with the same field name.
CommonNames == {"name"}

NextTwo ==
  \/ \E f \in Forms, inp \in Inputs : createForm(f, inp)
  \/ \E f \in Forms, n \in CommonNames : field(f, n, "")
  \/ \E f \in Forms, n \in CommonNames : required(f, n, NoMessage)
  \/ \E f \in Forms : validate(f)
  \/ \E c \in Slots : Resume(c)

SpecTwo == Init /\ [][NextTwo]_vars

\* A sign-up form: the fields name and email, the rules required and email.
ScenarioNames == {"name", "email"}

FormInput(name, mail) ==
  [n \in Keys |-> CASE n = "name" -> name [] n = "email" -> mail [] OTHER -> Undefined]

ScenarioInput == FormInput(Str(<<>>), Str(<<"b", "a", "d">>))

ScenarioInputs ==
  {ScenarioInput,
   FormInput(Str(<<"a">>), Str(<<"\"", "a", "\"", "@", "a", "b", ".", "c", "d">>))}

NextScenario ==
  \/ \E inp \in ScenarioInputs : createForm(1, inp)
  \/ \E n \in ScenarioNames : field(1, n, "")
  \/ \E n \in ScenarioNames : required(1, n, NoMessage)
  \/ \E n \in ScenarioNames : email(1, n, NoMessage)
  \/ validate(1)
  \/ \E c \in Slots : Resume(c)

SpecScenario == Init /\ [][NextScenario]_vars

\* One field under the rules required, accepted and email, over values of
\* every type.
UserAtExample == Str(<<"u", "s", "e", "r", "@", "e", "x", "a", "m", "p", "l", "e", ".", "c", "o", "m">>)
SubDomain == Str(<<"a", ".", "b", "@", "s", "u", "b", ".", "d", "o", "m", "a", "i", "n", ".", "c", "o">>)
NotAnEmail == Str(<<"n", "o", "t", "-", "a", "n", "-", "e", "m", "a", "i", "l">>)
QuotedLocalPart == Str(<<"\"", "a", "\"", "@", "a", "b", ".", "c", "d">>)
CookedLocalPart == Str(<<"u", ".", ",", ";", ":", "s", "@", "\"", "]", "@", "a", "b", ".", "c", "d">>)

RuleValues ==
  {Undefined, Null,
   Str(<<>>), Str(<<" ", " ">>), Str(<<"a">>), Str(<<" ", "a", " ">>),
   Str(<<"y", "e", "s">>), Str(<<"Y", "e", "s">>), Str(<<"Y", "E", "S">>),
   Str(<<"o", "n">>), Str(<<"1">>), Str(<<"t", "r", "u", "e">>),
   Num(0), Num(1), Num(2), Bool(TRUE), Bool(FALSE),
   Arr(<<>>), Arr(<< <<" ">> >>), Arr(<< <<"a">>, <<"b">> >>),
   UserAtExample, SubDomain, NotAnEmail, QuotedLocalPart, CookedLocalPart}

NextRules ==
  \/ \E v \in RuleValues : createForm(1, FormInput(v, Undefined))
  \/ field(1, "name", "")
  \/ required(1, "name", NoMessage)
  \/ accepted(1, "name", NoMessage)
  \/ email(1, "name", NoMessage)
  \/ check(1, "name")

SpecRules == Init /\ [][NextRules]_vars

\* One field holding a date, under the four date comparison rules.
DateValues == {Num(1), Num(2), Num(3)}

NextDates ==
  \/ \E d \in DateValues : createForm(1, FormInput(d, Undefined))
  \/ field(1, "name", "")
  \/ \E b \in DateArgs : after(1, "name", b, NoMessage)
  \/ \E b \in DateArgs : afterOrEqual(1, "name", b, NoMessage)
  \/ \E b \in DateArgs : before(1, "name", b, NoMessage)
  \/ \E b \in DateArgs : beforeOrEqual(1, "name", b, NoMessage)
  \/ check(1, "name")

SpecDates == Init /\ [][NextDates]_vars

\* One request: a route validates a form and hands the error of
\* validateAndThrow(), or an HttpError of its own, to the error handler,
\* whose response ends the request.
NextHttp ==
  \/ res = NoResponse /\ \E inp \in Inputs : createForm(1, inp)
  \/ res = NoResponse /\ \E n \in CommonNames : field(1, n, "")
  \/ res = NoResponse /\ \E n \in CommonNames : required(1, n, NoMessage)
  \/ res = NoResponse /\ \E n \in CommonNames : unique(1, n, NoMessage)
  \/ res = NoResponse /\ validateAndThrow(1)
  \/ res = NoResponse /\ Step
  \/ \E env \in AppEnvs, aj, ah \in BOOLEAN : ValidationFailed(env, aj, ah)
  \/ \E code \in HttpStatusCodes, env \in AppEnvs, aj, ah \in BOOLEAN :
       RouteFailed(code, env, aj, ah)

SpecHttp == Init /\ [][NextHttp]_vars

\* One form validator whose application starts validate() without waiting
\* for the validate() in flight.
NextOverlap ==
  \/ \E inp \in Inputs : createForm(1, inp)
  \/ \E n \in CommonNames : field(1, n, "")
  \/ \E n \in CommonNames : required(1, n, NoMessage)
  \/ \E n \in CommonNames : unique(1, n, NoMessage)
  \/ StartValidate(1, "validate", TRUE)
  \/ \E c \in Slots : Resume(c)
  \/ \E c \in Slots, pass \in BOOLEAN : Settle(c, pass)
  \/ \E c \in Slots : Reject(c)

SpecOverlap == Init /\ [][NextOverlap]_vars

\* One form validator whose application, between its validate() calls, also
\* checks single fields and adds errors of its own to them.
NextFrame ==
  \/ \E inp \in Inputs : createForm(1, inp)
  \/ \E n \in Names : field(1, n, "")
  \/ \E n \in Names : required(1, n, NoMessage)
  \/ \E n \in Names : check(1, n)
  \/ \E n \in Names : ManualError(1, n)
  \/ validate(1)
  \/ \E c \in Slots : Resume(c)

SpecFrame == Init /\ [][NextFrame]_vars

\* One form validator whose application keeps an error map, or a caught
\* validation error, and goes on validating.
NextKeep ==
  \/ \E inp \in Inputs : createForm(1, inp)
  \/ \E n \in CommonNames : field(1, n, "")
  \/ \E n \in CommonNames, m \in {NoMessage, CustomMessage} : required(1, n, m)
  \/ \E n \in CommonNames : unique(1, n, NoMessage)
  \/ \E n \in CommonNames : check(1, n)
  \/ validate(1)
  \/ validateAndThrow(1)
  \/ \E from \in {"getErrors", "error"} : Keep(1, from)
  \/ Step

SpecKeep == Init /\ [][NextKeep]_vars

\* One field under required and email, each attached again at will, required
\* also with a message of the caller.
NextOrder ==
  \/ \E v \in RuleValues : createForm(1, FormInput(v, Undefined))
  \/ field(1, "name", "")
  \/ \E m \in {NoMessage, CustomMessage} : required(1, "name", m)
  \/ email(1, "name", NoMessage)
  \/ check(1, "name")

SpecOrder == Init /\ [][NextOrder]_vars

\* One uploaded file, moved and deleted by the application in any order,
\* without waiting for the operations in flight.
NextUpload ==
  \/ \E uploaded \in TempFiles : Upload(uploaded)
  \/ \E d \in Destinations, n \in FileNames : move(d, n)
  \/ \E i \in 1..MaxPending, err \in BOOLEAN : RenameDone(i, err)
  \/ deleteTempFile
  \/ \E i \in 1..MaxPending, err \in BOOLEAN : UnlinkDone(i, err)

SpecUpload == Init /\ [][NextUpload]_vars

\* One request through the body parser.
NextParser ==
  \E err \in BOOLEAN, parsed \in [FileKeys -> FieldUploads], max \in UploadMaxSizes :
    bodyParser(err, parsed, max)

SpecParser == Init /\ [][NextParser]_vars

\* ------------------------------------------------------------------ claims
\* What the predicates of one run decided, read off its log.
FailedFields(log) == {log[i].field : i \in {j \in 1..Len(log) : ~log[j].pass}}

\* The failure records a field owes to a run: one per failing predicate of
\* the field, in the order the run evaluated them, rendered from the rule.
FailureRecords(f, fieldName, log) ==
  LET failing == SelectSeq(log, LAMBDA e : e.field = fieldName /\ ~e.pass)
  IN [i \in 1..Len(failing) |->
        LET rule == RuleOf(f, fieldName, failing[i].rule)
        IN [rule |-> failing[i].rule, message |-> template(rule.message, rule.attrs)]]

IsValidateKind(rec) == rec.kind \in {"validate", "validateAndThrow"}

\* validate() of this record has returned, and nothing was done since.
Returned(c) ==
  /\ IsValidateKind(calls[c])
  /\ calls[c].pc \in {"done", "awaitValidate", "thrown"}

KeysOf(value) == [i \in 1..Len(value) |-> value[i].field]

\* C1: validate() resolves to true exactly when no predicate of the run
\* failed; when it has resolved, getErrors() holds an entry for exactly the
\* fields with a failing predicate, each entry being that field's failure
\* records, and hasErrors() is the negation of the value returned.  A failing
\* predicate never makes validate() itself reject or throw.
C1_ValidateResult ==
  \A c \in Slots :
    LET rec == calls[c]
        f == rec.form
    IN /\ Returned(c) =>
            /\ rec.result = (FailedFields(rec.log) = {})
            /\ Range(KeysOf(getErrors(f))) = FailedFields(rec.log)
            /\ \A i \in 1..Len(getErrors(f)) :
                 getErrors(f)[i].errors = FailureRecords(f, getErrors(f)[i].field, rec.log)
            /\ hasErrors(f) = ~rec.result
       /\ rec.kind = "validate" => rec.pc # "thrown"

\* C1 witness: validate() has resolved false for two fields of which one
\* failed and the other passed.
C1_Witness ==
  \E c \in Slots :
    /\ Returned(c) /\ calls[c].kind = "validate"
    /\ ~calls[c].result
    /\ Len(calls[c].fkeys) = 2
    /\ Len(getErrors(calls[c].form)) = 1
    /\ \E i \in 1..Len(calls[c].log) : calls[c].log[i].pass

\* C2: the aggregate map holds the results of the most recent validate()
\* only: every record in it is a failure of that run and it has as many
\* records as that run had failures, whatever the map of the run before held.
RECURSIVE CountRecords(_)
CountRecords(value) ==
  IF value = <<>> THEN 0 ELSE Len(Head(value).errors) + CountRecords(Tail(value))

C2_ReplacedNotMerged ==
  \A c \in Slots :
    LET rec == calls[c]
        f == rec.form
    IN Returned(c) =>
         /\ CountRecords(getErrors(f)) = Len(SelectSeq(rec.log, LAMBDA e : ~e.pass))
         /\ \A i \in 1..Len(getErrors(f)) :
              \A k \in 1..Len(getErrors(f)[i].errors) :
                \E j \in 1..Len(rec.log) :
                  /\ ~rec.log[j].pass
                  /\ rec.log[j].field = getErrors(f)[i].field
                  /\ rec.log[j].rule = getErrors(f)[i].errors[k].rule

\* C2 witness: a field that had an entry after the validate() before has
\* none after this one.
C2_Witness ==
  \E c \in Slots :
    /\ Returned(c) /\ calls[c].cmp.has
    /\ \E i \in 1..Len(calls[c].cmp.errs) :
         calls[c].cmp.errs[i].field \notin Range(KeysOf(getErrors(calls[c].form)))

\* C3: two validate() calls in a row, with nothing done to the form in
\* between and every predicate deciding the same both times, return the same
\* boolean and leave identical error maps.
C3_Idempotent ==
  \A c \in Slots :
    LET rec == calls[c]
    IN (Returned(c) /\ rec.cmp.has
          /\ rec.cmp.passes = [i \in 1..Len(rec.log) |-> rec.log[i].pass]) =>
         /\ rec.result = rec.cmp.result
         /\ getErrors(rec.form) = rec.cmp.errs

\* C3 witness: the second of two validate() calls in a row has returned, both
\* with a failure recorded.
C3_Witness ==
  \E c \in Slots :
    /\ Returned(c) /\ calls[c].cmp.has
    /\ calls[c].cmp.passes = [i \in 1..Len(calls[c].log) |-> calls[c].log[i].pass]
    /\ calls[c].cmp.errs # <<>>
    /\ ~calls[c].result

\* C4: validateAndThrow() raises a validation error exactly when a predicate
\* of its run failed; the error carries the aggregate map of the run and the
\* message 'Invalid form input'; with no failure it resolves.
C4_ThrowIffInvalid ==
  \A c \in Slots :
    LET rec == calls[c]
        f == rec.form
    IN rec.kind = "validateAndThrow" =>
         /\ rec.pc = "thrown" =>
              /\ FailedFields(rec.log) # {}
              /\ rec.thrown.message = "Invalid form input"
              /\ rec.thrown.fields = fieldErrors[f]
              /\ \A i \in 1..Len(MapValue(rec.thrown.fields)) :
                   MapValue(rec.thrown.fields)[i].errors
                     = FailureRecords(f, MapValue(rec.thrown.fields)[i].field, rec.log)
              /\ Range(KeysOf(MapValue(rec.thrown.fields))) = FailedFields(rec.log)
         /\ rec.pc = "done" => FailedFields(rec.log) = {}

\* C4 witness: validateAndThrow() has thrown with the failures of two fields.
C4_Witness ==
  \E c \in Slots :
    /\ calls[c].kind = "validateAndThrow" /\ calls[c].pc = "thrown"
    /\ Len(MapValue(calls[c].thrown.fields)) = 2

\* C5: iterating getErrors() yields the failing fields in the order in which
\* the fields were first referenced on the form validator.
C5_FieldDeclarationOrder ==
  \A c \in Slots :
    Returned(c) =>
      KeysOf(getErrors(calls[c].form))
        = SelectSeq(fields[calls[c].form], LAMBDA n : n \in FailedFields(calls[c].log))

\* C6: what validate() decides is decided by the values the input mapping
\* held when createForm was called: every predicate of the run gave the
\* answer it gives on the snapshot.
C6_SnapshotDecides ==
  \A c \in Slots :
    LET rec == calls[c]
        f == rec.form
    IN Returned(c) =>
         \A i \in 1..Len(rec.log) :
           LET rule == RuleOf(f, rec.log[i].field, rec.log[i].rule)
           IN ~rule.async =>
                rec.log[i].pass = HandleValue(snapshot[f][rec.log[i].field], rule, now)

\* C7: field(name) called again returns the field rule set of the first
\* reference: one set per name, with the identity and the label of the first
\* reference, holding every rule attached to the name so far.
C7_FieldIdempotent ==
  \A f \in Forms :
    /\ Cardinality(Range(fields[f])) = Len(fields[f])
    /\ \A n \in Range(fields[f]) :
         /\ fvId[f][n] = first[f][n].id
         /\ fieldLabel[f][n] = first[f][n].label
         /\ {r.name : r \in Range(rules[f][n])} = {a.name : a \in attached[f][n]}

\* C7 witness: a field first referenced without a label, and holding a rule,
\* has been referenced again with a label.
C7_Witness ==
  \E f \in Forms, n \in Keys :
    /\ n \in Range(fields[f])
    /\ first[f][n].lastArg = "Label"
    /\ fieldLabel[f][n] = lowerCase(n)
    /\ rules[f][n] # <<>>

\* The message and attributes the latest attachment a of a rule asks for.
LatestMessage(a) == IF a.message # NoMessage THEN a.message ELSE RULE_MESSAGES(a.name)
LatestAttrs(f, n, a) ==
  IF a.name \in {"after", "afterOrEqual", "before", "beforeOrEqual"}
  THEN [label |-> fieldLabel[f][n], date |-> MomentToString(a.date)]
  ELSE [label |-> fieldLabel[f][n]]

\* C8: a field holds at most one rule per rule name, the one attached last;
\* check() records at most one failure per rule name, decided and rendered
\* with the message and the bound date of that latest attachment.
C8_LatestAttachmentWins ==
  /\ \A f \in Forms, n \in Keys :
       /\ \A i, j \in 1..Len(rules[f][n]) :
            rules[f][n][i].name = rules[f][n][j].name => i = j
       /\ \A a \in attached[f][n] :
            \E r \in Range(rules[f][n]) :
              /\ r.name = a.name
              /\ r.message = LatestMessage(a)
              /\ r.date = a.date
  /\ \A c \in Slots :
       LET rec == calls[c]
           f == rec.form
           errs == FieldGetErrors(f, rec.field)
       IN (rec.kind = "check" /\ rec.pc = "done") =>
            /\ \A i, j \in 1..Len(errs) : errs[i].rule = errs[j].rule => i = j
            /\ \A i \in 1..Len(errs) :
                 \E a \in attached[f][rec.field] :
                   /\ a.name = errs[i].rule
                   /\ errs[i].message = template(LatestMessage(a), LatestAttrs(f, rec.field, a))
                   /\ a.name \in {"required", "after"} =>
                        ~HandleValue(getInput(f, rec.field), a, now)

\* C8 witness: check() has recorded the failure of an after rule that was
\* attached again with another bound date.
C8_Witness ==
  \E c \in Slots :
    /\ calls[c].kind = "check" /\ calls[c].pc = "done"
    /\ \E a \in attached[calls[c].form][calls[c].field] :
         /\ a.name = "after" /\ a.replaced
         /\ \E i \in 1..Len(FieldGetErrors(calls[c].form, calls[c].field)) :
              FieldGetErrors(calls[c].form, calls[c].field)[i].rule = "after"

\* The part of a log that belongs to one field.
LogOf(log, fieldName) == SelectSeq(log, LAMBDA e : e.field = fieldName)

\* C9: check() evaluates every rule of the field once, in order, on the
\* field's value, also after a failure; the field's failure list is then exactly one record per failing
\* predicate (nothing of an earlier check() is left in it), and check()
\* resolves to true exactly when a failure was recorded.
C9_CheckRunsEveryRule ==
  \A c \in Slots :
    LET rec == calls[c]
        f == rec.form
        log == LogOf(rec.log, rec.field)
    IN (rec.kind = "check" /\ rec.pc = "done") =>
         /\ [i \in 1..Len(log) |-> log[i].rule] = RuleNames(f, rec.field)
         /\ \A i \in 1..Len(log) :
              LET rule == RuleOf(f, rec.field, log[i].rule)
              IN ~rule.async => log[i].pass = Handle(f, rec.field, rule)
         /\ FieldGetErrors(f, rec.field) = FailureRecords(f, rec.field, rec.log)
         /\ FieldHasErrors(f, rec.field) = (\E i \in 1..Len(log) : ~log[i].pass)
         /\ rec.result = (\E i \in 1..Len(log) : ~log[i].pass)

\* C9 witness: check() has resolved true with the failures of both rules of
\* its field recorded.
C9_Witness ==
  \E c \in Slots :
    /\ calls[c].kind = "check" /\ calls[c].pc = "done"
    /\ calls[c].result
    /\ Len(FieldGetErrors(calls[c].form, calls[c].field)) = 2

\* C10: within one validate() at most one predicate is in flight: the one of
\* the rule the check is suspended at, every rule before it in the field
\* having settled and every field before it having been checked completely;
\* no predicate of a later field has been evaluated.
C10_OnePredicateAtATime ==
  \A c \in Slots :
    LET rec == calls[c]
        f == rec.form
    IN /\ Cardinality(rec.pending) <= 1
       /\ rec.pending # {} =>
            /\ rec.pc = "awaitPred"
            /\ rec.pending = {rec.rkeys[rec.ri]}
            /\ [i \in 1..Len(LogOf(rec.log, rec.field)) |-> LogOf(rec.log, rec.field)[i].rule]
                 = SubSeq(rec.rkeys, 1, rec.ri - 1)
       /\ (IsValidateKind(rec) /\ InFlight(c)) =>
            \A j \in 1..Len(rec.fkeys) :
              /\ j < rec.fi =>
                   [i \in 1..Len(LogOf(rec.log, rec.fkeys[j])) |->
                      LogOf(rec.log, rec.fkeys[j])[i].rule] = RuleNames(f, rec.fkeys[j])
              /\ j > rec.fi => LogOf(rec.log, rec.fkeys[j]) = <<>>

\* C10 witness: validate() is suspended at the asynchronous predicate of its
\* second field, with a predicate of the first field settled.
C10_Witness ==
  \E c \in Slots :
    /\ IsValidateKind(calls[c]) /\ calls[c].pc = "awaitPred"
    /\ calls[c].fi = 2
    /\ calls[c].pending # {}
    /\ LogOf(calls[c].log, calls[c].fkeys[1]) # <<>>

\* The rules of a field that are marked asynchronous.
AsyncRules(f, fieldName) == {r.name : r \in {x \in Range(rules[f][fieldName]) : x.async}}

\* The asynchronous rules of a field, each settled in the log, and each one
\* that resolved to false with a failure record in errs.
AsyncSettled(f, fieldName, log, errs) ==
  \A ruleName \in AsyncRules(f, fieldName) :
    \E i \in 1..Len(log) :
      /\ log[i].field = fieldName /\ log[i].rule = ruleName
      /\ ~log[i].pass => \E k \in 1..Len(errs) : errs[k].rule = ruleName

\* The records the error map value holds for a field (none without an entry).
EntryOf(value, fieldName) ==
  IF \E i \in 1..Len(value) : value[i].field = fieldName
  THEN (CHOOSE e \in Range(value) : e.field = fieldName).errors
  ELSE <<>>

\* C11: check() resolves only when every asynchronous predicate of its field
\* has settled, and so does validate() for every field; an asynchronous
\* predicate that resolved to false has left a failure record for its rule.
C11_AsyncSettlesFirst ==
  \A c \in Slots :
    LET rec == calls[c]
        f == rec.form
    IN /\ (IsValidateKind(rec) /\ rec.pc = "awaitCheck") =>
            /\ rec.pending = {}
            /\ AsyncSettled(f, rec.field, rec.log, FieldGetErrors(f, rec.field))
       /\ Returned(c) =>
            /\ rec.pending = {}
            /\ \A n \in Range(fields[f]) :
                 AsyncSettled(f, n, rec.log, EntryOf(getErrors(f), n))

\* C11 witness: validate() has returned false with the record of an
\* asynchronous rule whose predicate resolved to false.
C11_Witness ==
  \E c \in Slots :
    /\ Returned(c) /\ ~calls[c].result
    /\ \E i \in 1..Len(calls[c].log) :
         /\ calls[c].log[i].rule = "unique" /\ ~calls[c].log[i].pass
         /\ \E k \in 1..Len(EntryOf(getErrors(calls[c].form), calls[c].log[i].field)) :
              EntryOf(getErrors(calls[c].form), calls[c].log[i].field)[k].rule = "unique"

\* C12: a call in which a predicate rejected has rejected with the
\* predicate's error (no validation error, nothing swallowed); the rule has
\* no failure record, no later rule of the field was evaluated and no later
\* field was checked or stored.
C12_RejectionPropagates ==
  \A c \in Slots :
    LET rec == calls[c]
        f == rec.form
        log == LogOf(rec.log, rec.field)
    IN rec.rejectedBy # "" =>
         /\ rec.pc = "rejected"
         /\ rec.thrown = PredicateError
         /\ \A k \in 1..Len(FieldGetErrors(f, rec.field)) :
              FieldGetErrors(f, rec.field)[k].rule # rec.rejectedBy
         /\ [i \in 1..Len(log) |-> log[i].rule] = SubSeq(rec.rkeys, 1, rec.ri - 1)
         /\ IsValidateKind(rec) =>
              /\ \A j \in 1..Len(rec.fkeys) : j > rec.fi => LogOf(rec.log, rec.fkeys[j]) = <<>>
              /\ Range(KeysOf(getErrors(f))) \subseteq {rec.fkeys[j] : j \in 1..(rec.fi - 1)}

\* C12 witness: validateAndThrow() has rejected at the asynchronous rule of
\* the first of its two fields, after a rule of that field had failed.
C12_Witness ==
  \E c \in Slots :
    /\ calls[c].kind = "validateAndThrow" /\ calls[c].rejectedBy # ""
    /\ Len(calls[c].fkeys) = 2 /\ calls[c].fi = 1
    /\ FieldGetErrors(calls[c].form, calls[c].field) # <<>>

\* What a form validator holds: its fields, their identities, labels, rules
\* and failure lists, and its aggregate error map.
FormView(g) ==
  [fields |-> fields[g], fvId |-> fvId[g], fieldLabel |-> fieldLabel[g], rules |-> rules[g],
   errors |-> [n \in Keys |-> IF errors[g][n] = 0 THEN <<>> ELSE arrays[errors[g][n]]],
   map |-> IF created[g] THEN getErrors(g) ELSE <<>>]

\* No field rule set, failure list or error map belongs to two form validators.
Unshared ==
  \A f, g \in Forms :
    f # g =>
      /\ \A n, m \in Keys :
           /\ fvId[f][n] # 0 => fvId[f][n] # fvId[g][m]
           /\ errors[f][n] # 0 => errors[f][n] # errors[g][m]
           /\ (created[f] /\ created[g]) =>
                errors[f][n] \notin {maps[fieldErrors[g]].at[k] : k \in Keys} \ {0}
      /\ created[f] => fieldErrors[f] # fieldErrors[g]

\* The step is an operation on form validator f.
OperationOn(f) ==
  \/ \E inp \in Inputs : createForm(f, inp)
  \/ \E n \in Names : field(f, n, "")
  \/ \E n \in Names : required(f, n, NoMessage)
  \/ validate(f)
  \/ \E c \in Slots : calls[c].form = f /\ Resume(c)

\* C13: field(name) on a form validator yields a field rule set of its own,
\* shared with no other form validator, and every operation on one form
\* validator leaves what the other holds unchanged.
C13_FormsIndependent ==
  [][\A f \in Forms :
       /\ \A n \in Names :
            field(f, n, "") =>
              /\ n \in Range(fields'[f])
              /\ \A g \in Forms \ {f}, m \in Keys : fvId'[g][m] # fvId'[f][n]
       /\ OperationOn(f) =>
            /\ Unshared'
            /\ \A g \in Forms \ {f} : FormView(g)' = FormView(g)]_vars

\* C13 witness: two form validators with the same field and rule, one with
\* a failure recorded by its validate(), the other validated without any.
C13_Witness ==
  /\ created[1] /\ created[2]
  /\ fields[1] = fields[2] /\ fields[1] # <<>>
  /\ rules[1] = rules[2] /\ rules[1]["name"] # <<>>
  /\ hasErrors(1) /\ ~hasErrors(2)
  /\ \E c \in Slots : Returned(c) /\ calls[c].form = 2

\* The placeholders of a message whose key is not among keys.
MissingKeys(message, keys) ==
  {message[i].v : i \in {j \in 1..Len(message) : message[j].ph /\ message[j].v \notin keys}}

\* The message with each of those placeholders replaced by empty text.
Blanked(message, keys) ==
  [i \in 1..Len(message) |->
     IF message[i].ph /\ message[i].v \notin keys THEN Lit("") ELSE message[i]]

\* C14: a failing rule whose message has a placeholder its attributes lack
\* is recorded all the same when check() has completed, its message rendered
\* with that placeholder empty.
C14_LenientRendering ==
  \A c \in Slots :
    LET rec == calls[c]
        f == rec.form
        errs == FieldGetErrors(f, rec.field)
    IN (rec.kind = "check" /\ rec.pc = "done") =>
         \A a \in attached[f][rec.field] :
           LET attrs == LatestAttrs(f, rec.field, a)
               message == LatestMessage(a)
           IN (/\ MissingKeys(message, DOMAIN attrs) # {}
               /\ \E i \in 1..Len(rec.log) : rec.log[i].rule = a.name /\ ~rec.log[i].pass) =>
                \E k \in 1..Len(errs) :
                  /\ errs[k].rule = a.name
                  /\ errs[k].message = template(Blanked(message, DOMAIN attrs), attrs)

\* C14 witness: check() has recorded the failure of a required rule whose
\* message names ${date}.
C14_Witness ==
  \E c \in Slots :
    /\ calls[c].kind = "check" /\ calls[c].pc = "done"
    /\ \E a \in attached[calls[c].form][calls[c].field] :
         /\ a.name = "required" /\ a.message = MissingKeyMessage
         /\ \E k \in 1..Len(FieldGetErrors(calls[c].form, calls[c].field)) :
              /\ FieldGetErrors(calls[c].form, calls[c].field)[k].rule = "required"
              /\ FieldGetErrors(calls[c].form, calls[c].field)[k].message = "name must be after "

\* C15: the form built from {name: "", email: "bad"} with required on name
\* and email on email, referenced in that order: validate() returns false
\* and getErrors() is the required failure of name followed by the email
\* failure of email, each with the default message and label.
C15_Scenario ==
  \A c \in Slots :
    LET f == calls[c].form
    IN (/\ Returned(c)
        /\ snapshot[f] = ScenarioInput
        /\ fields[f] = <<"name", "email">>
        /\ RuleNames(f, "name") = <<"required">>
        /\ RuleNames(f, "email") = <<"email">>) =>
         /\ calls[c].result = FALSE
         /\ getErrors(f) =
              << [field |-> "name",
                  errors |-> <<[rule |-> "required", message |-> "The name field is required."]>>],
                 [field |-> "email",
                  errors |-> <<[rule |-> "email",
                                message |-> "The email must be a valid email address."]>>] >>

\* C15 witness: validate() has returned on that form.
C15_Witness ==
  \E c \in Slots :
    /\ Returned(c)
    /\ snapshot[calls[c].form] = ScenarioInput
    /\ fields[calls[c].form] = <<"name", "email">>
    /\ RuleNames(calls[c].form, "name") = <<"required">>
    /\ RuleNames(calls[c].form, "email") = <<"email">>
    /\ Len(getErrors(calls[c].form)) = 2

\* A check() of the field name has completed with the rule ruleName
\* evaluated; Passed is what its predicate returned.
Evaluated(c, ruleName) ==
  /\ calls[c].kind = "check" /\ calls[c].pc = "done"
  /\ \E i \in 1..Len(calls[c].log) : calls[c].log[i].rule = ruleName

Passed(c, ruleName) ==
  \E i \in 1..Len(calls[c].log) : calls[c].log[i].rule = ruleName /\ calls[c].log[i].pass

\* The value check() read for its field.
Checked(c) == getInput(calls[c].form, calls[c].field)

Absent(val) == val.t \in {"null", "undefined"}
Blank(str) == \A i \in 1..Len(str) : str[i] \in WhiteSpace

\* C16 as stated: required fails exactly on an absent value and on a string
\* that is empty or all whitespace; every other value, lists included, passes.
C16_RequiredAsStated ==
  \A c \in Slots :
    Evaluated(c, "required") =>
      (Passed(c, "required")
         = ~(Absent(Checked(c)) \/ (Checked(c).t = "str" /\ Blank(Checked(c).s))))

\* C16 amended: required fails exactly on an absent value and on a string or
\* list whose text (a list's elements joined by commas) is empty or all
\* whitespace; every other value passes.
C16_RequiredFailsOnBlankText ==
  \A c \in Slots :
    Evaluated(c, "required") =>
      (Passed(c, "required")
         = ~(\/ Absent(Checked(c))
             \/ Checked(c).t = "str" /\ Blank(Checked(c).s)
             \/ Checked(c).t = "arr" /\ Blank(JoinItems(Checked(c).items))))

\* C16 witness: required has been evaluated on the empty list and failed.
C16_Witness ==
  \E c \in Slots :
    /\ Evaluated(c, "required") /\ ~Passed(c, "required")
    /\ Checked(c) = Arr(<<>>)

\* The values the accepted rule is said to pass.
AcceptedValues ==
  {Str(<<y, e, s>>) : y \in {"y", "Y"}, e \in {"e", "E"}, s \in {"s", "S"}}
    \cup {Bool(TRUE), Num(1)}

C18_EmailExamples ==
  \A c \in Slots :
    Evaluated(c, "email") =>
      /\ Checked(c) \in {UserAtExample, SubDomain} => Passed(c, "email")
      /\ Checked(c) = NotAnEmail => ~Passed(c, "email")

\* The instant of the field's value, and the bound the rule was attached with.
CheckedMs(c) == Checked(c).n
BoundMs(c, ruleName) == RuleOf(calls[c].form, calls[c].field, ruleName).date.ms

\* Both rules were evaluated by the check, against the same bound.
SameBound(c, r1, r2) ==
  /\ Evaluated(c, r1) /\ Evaluated(c, r2)
  /\ BoundMs(c, r1) = BoundMs(c, r2)

\* C19: on a valid date d and a bound b fixed at attachment, after passes
\* iff d > b, afterOrEqual iff d >= b, before iff d < b and beforeOrEqual iff
\* d <= b; of after and beforeOrEqual on one bound exactly one passes, and so
\* of before and afterOrEqual.
C19_DateComparisons ==
  \A c \in Slots :
    /\ Evaluated(c, "after") =>
         (Passed(c, "after") = (CheckedMs(c) > BoundMs(c, "after")))
    /\ Evaluated(c, "afterOrEqual") =>
         (Passed(c, "afterOrEqual") = (CheckedMs(c) >= BoundMs(c, "afterOrEqual")))
    /\ Evaluated(c, "before") =>
         (Passed(c, "before") = (CheckedMs(c) < BoundMs(c, "before")))
    /\ Evaluated(c, "beforeOrEqual") =>
         (Passed(c, "beforeOrEqual") = (CheckedMs(c) <= BoundMs(c, "beforeOrEqual")))
    /\ SameBound(c, "after", "beforeOrEqual") =>
         (Passed(c, "after") = ~Passed(c, "beforeOrEqual"))
    /\ SameBound(c, "before", "afterOrEqual") =>
         (Passed(c, "before") = ~Passed(c, "afterOrEqual"))

\* C19 witness: on a date equal to the bound, after has failed and
\* afterOrEqual has passed.
C19_Witness ==
  \E c \in Slots :
    /\ SameBound(c, "after", "afterOrEqual")
    /\ CheckedMs(c) = BoundMs(c, "after")
    /\ ~Passed(c, "after") /\ Passed(c, "afterOrEqual")

\* The entries of an error map value put in the order fieldOrder names them.
InOrder(value, fieldOrder) ==
  [i \in 1..Len(SelectSeq(fieldOrder, LAMBDA n : n \in Range(KeysOf(value)))) |->
     CHOOSE e \in Range(value) :
       e.field = SelectSeq(fieldOrder, LAMBDA n : n \in Range(KeysOf(value)))[i]]

MergeTokens == {DefaultMergeToken, "; "}

\* The accessors of a raised validation error, but for the order of fields:
\* getFirstMessage is the message of the field's first record, or nothing
\* without an entry; getCompiledMessage joins one message per record, in the
\* order the error map enumerates its fields.
AccessorsInMapOrder ==
  \A c \in Slots :
    LET err == calls[c].thrown
        value == MapValue(err.fields)
    IN calls[c].pc = "thrown" =>
         /\ \A n \in Keys :
              getFirstMessage(err, n) =
                IF EntryOf(value, n) = <<>> THEN NoString
                ELSE SomeString(EntryOf(value, n)[1].message)
         /\ \A token \in MergeTokens :
              getCompiledMessage(err, token) = Join(Messages(value), token)

\* C20: on a raised validation error getFirstMessage(f) is the message of
\* the first record of f, or nothing when f has no record, and
\* getCompiledMessage(token) is the messages of all records joined by the
\* token, the fields in the order they were first referenced and the records
\* of a field in the order of its rules.
C20_ErrorAccessors ==
  \A c \in Slots :
    LET err == calls[c].thrown
        f == calls[c].form
        value == MapValue(err.fields)
    IN calls[c].pc = "thrown" =>
         /\ \A n \in Keys :
              getFirstMessage(err, n) =
                IF EntryOf(value, n) = <<>> THEN NoString
                ELSE SomeString(EntryOf(value, n)[1].message)
         /\ \A token \in MergeTokens :
              getCompiledMessage(err, token)
                = Join(Messages(InOrder(value, fields[f])), token)

\* The rule names a field holds.
AttachedNames(f, fieldName) == {r.name : r \in Range(rules[f][fieldName])}

\* An error map value has the shape the service promises for form f: a
\* registered field per entry, each with a non-empty list of records of rules
\* attached to the field.
WellShaped(f, value) ==
  \A i \in 1..Len(value) :
    /\ value[i].field \in Range(fields[f])
    /\ value[i].errors # <<>>
    /\ \A k \in 1..Len(value[i].errors) :
         value[i].errors[k].rule \in AttachedNames(f, value[i].field)

C22_ErrorHandler ==
  res # NoResponse =>
    LET details == IF res.sent = "send" THEN res.body ELSE res.body.error
    IN /\ (res.status = 400 /\ "fields" \in DOMAIN details)
            <=> res.err.class = "FormValidationError"
       /\ res.err.class = "FormValidationError" => details.fields = res.err.fields
       /\ res.err.class = "HttpError" =>
            res.status = res.err.statusCode /\ "fields" \notin DOMAIN details
       /\ res.err.class = "Error" => res.status = 500 /\ "fields" \notin DOMAIN details
       /\ "stack" \in DOMAIN details <=> res.env # "production"
       /\ details.name = res.err.name /\ details.message = res.err.message
       /\ res.acceptsJson => res.sent = "json" /\ res.body = [error |-> details]
       /\ (~res.acceptsJson /\ res.acceptsHtml) =>
            /\ res.sent = "render"
            /\ res.view = CASE res.status = 400 -> "errors/400"
                            [] res.status = 404 -> "errors/404"
                            [] res.status = 500 -> "errors/500"

\* C22 witness: a validation error with a failing field was answered with
\* the rendered page of status 400, in production.
C22_Witness ==
  /\ res # NoResponse
  /\ res.err.class = "FormValidationError" /\ res.err.fields # <<>>
  /\ res.sent = "render" /\ res.env = "production"

\* Two validate() calls on one form validator that overlapped have both
\* returned.
BothSettled(c, d) ==
  /\ c # d
  /\ calls[c].kind = "validate" /\ calls[d].kind = "validate"
  /\ calls[c].form = calls[d].form
  /\ calls[c].pc = "done" /\ calls[d].pc = "done"

\* C23: when two overlapping validate() calls on a form validator have both
\* settled, each has returned what a lone call with its predicate results
\* returns, and, the predicates having decided alike in both, the aggregate
\* map is the map of a lone call: the failing fields, each with one record
\* per failing rule and no rule twice.
C23_OverlapNeedsNoLock ==
  \A c, d \in Slots :
    LET rec == calls[c]
        f == rec.form
    IN BothSettled(c, d) =>
         /\ rec.result = (FailedFields(rec.log) = {})
         /\ \A i \in 1..Len(getErrors(f)) :
              \A j, k \in 1..Len(getErrors(f)[i].errors) :
                getErrors(f)[i].errors[j].rule = getErrors(f)[i].errors[k].rule => j = k
         /\ rec.log = calls[d].log =>
              /\ Range(KeysOf(getErrors(f))) = FailedFields(rec.log)
              /\ \A i \in 1..Len(getErrors(f)) :
                   getErrors(f)[i].errors = FailureRecords(f, getErrors(f)[i].field, rec.log)

\* The step is a public operation on form validator f other than validate()
\* and validateAndThrow().
OtherOperation(f) ==
  \/ \E n \in Names : field(f, n, "")
  \/ \E n \in Names : required(f, n, NoMessage)
  \/ \E n \in Names : check(f, n)
  \/ \E n \in Names : ManualError(f, n)

\* C24: between validate() calls no other public operation changes the
\* content of the map getErrors() returns or the value of hasErrors():
\* field(), attaching a rule, and a field's check() and addError() leave
\* both as they were.
C24_OthersLeaveMap ==
  [][\A f \in Forms :
       OtherOperation(f) =>
         /\ getErrors(f)' = getErrors(f)
         /\ hasErrors(f)' = hasErrors(f)]_vars

\* C25: a raised validation error, and an error map getErrors() returned,
\* keep the failure records of the run that produced them: what later
\* validate(), validateAndThrow() and check() calls do, also after a rule was
\* attached again, changes no field and no record in them.
C25_KeptMapIsStable ==
  kept.has => MapValue(kept.map) = kept.value

\* C25 witness: the application holds the map of a caught validation error
\* with a failure in it, while a later validate() has settled without any
\* failure and left another map in the form validator.
C25_Witness ==
  /\ kept.has /\ kept.from = "error" /\ kept.value # <<>>
  /\ kept.map # fieldErrors[1]
  /\ ~hasErrors(1)
  /\ \E c \in Slots : calls[c].kind = "validate" /\ calls[c].pc = "done"

\* The fields a run checked to the end before the field it is at.
CheckedBefore(rec) == {rec.fkeys[i] : i \in 1..(rec.fi - 1)}

\* C26: when validate() rejects because a predicate of field k threw, the
\* aggregate map holds exactly the failing ones among the fields checked
\* before k, each with its failure records, and so no entry for k or a later
\* field and nothing of the validate() before; hasErrors() is true exactly
\* when one of those earlier fields failed.
C26_MapAfterRejection ==
  \A c \in Slots :
    LET rec == calls[c]
        f == rec.form
        failing == CheckedBefore(rec) \cap FailedFields(rec.log)
    IN (IsValidateKind(rec) /\ rec.pc = "rejected") =>
         /\ rec.fkeys[rec.fi] = rec.field
         /\ Range(KeysOf(getErrors(f))) = failing
         /\ \A n \in failing : EntryOf(getErrors(f), n) = FailureRecords(f, n, rec.log)
         /\ hasErrors(f) = (failing # {})

\* C26 witness: validate() rejected at its second field, after a first field
\* that failed and has the only entry of the map.
C26_Witness ==
  \E c \in Slots :
    /\ IsValidateKind(calls[c]) /\ calls[c].pc = "rejected"
    /\ calls[c].fi = 2
    /\ Len(getErrors(calls[c].form)) = 1
    /\ getErrors(calls[c].form)[1].field = calls[c].fkeys[1]

\* The names of the rules of a sequence of log entries or failure records.
RulesOf(entries) == [i \in 1..Len(entries) |-> entries[i].rule]

\* C27: attaching a rule name the field already holds keeps the rule where
\* its first attachment put it, a new rule name goes last, and check()
\* evaluates the rules, and records their failures, in that order: after
\* required(), email(), required('x') required comes before email.
C27_ReattachKeepsPlace ==
  [][LET names == RuleNames(1, "name")
         attach == \/ \E m \in {NoMessage, CustomMessage} : required(1, "name", m)
                   \/ email(1, "name", NoMessage)
     IN /\ attach =>
             \/ RuleNames(1, "name")' = names
             \/ \E new \in {"required", "email"} \ Range(names) :
                  RuleNames(1, "name")' = Append(names, new)
        /\ check(1, "name") =>
             \A c \in Slots :
               calls'[c].kind = "check" =>
                 /\ RulesOf(calls'[c].log) = names
                 /\ RulesOf(FieldGetErrors(1, "name")') =
                      SelectSeq(names, LAMBDA r :
                        \E i \in 1..Len(calls'[c].log) :
                          calls'[c].log[i].rule = r /\ ~calls'[c].log[i].pass)]_vars

\* C27 witness: required was attached again, with a message of the caller,
\* when the field also held email; check() has evaluated required before
\* email and recorded the failure of required, with that message, before the
\* one of email.
C27_Witness ==
  \E c \in Slots :
    /\ calls[c].kind = "check" /\ calls[c].pc = "done"
    /\ \E a \in attached[1]["name"] :
         a.name = "required" /\ a.replaced /\ "email" \in a.over
    /\ RulesOf(calls[c].log) = <<"required", "email">>
    /\ RulesOf(FieldGetErrors(1, "name")) = <<"required", "email">>
    /\ FieldGetErrors(1, "name")[1].message = template(CustomMessage, [label |-> "name"])

\* The operations of one kind in flight.
InFlightOps(op) == {i \in 1..Len(fsOps) : fsOps[i].op = op}

\* What the flags and the name of the file say in a state.
MoveFlagsSound ==
  /\ Cardinality(InFlightOps("rename")) <= 1
  /\ upFile.processing <=> InFlightOps("rename") # {}
  /\ upFile.moved <=> renames.succeeded
  /\ ~upFile.moved => \E up \in TempFiles \cup {NoFile} : upFile.name = up.name /\ upFile.path = up.path

\* What a step does to them.
MoveStepSound ==
  /\ upFile.moved => upFile'.moved
  /\ (upFile'.moved /\ ~upFile.moved) => \E i \in 1..Len(fsOps) : RenameDone(i, FALSE)
  /\ (upFile.made /\ (upFile'.name # upFile.name \/ upFile'.path # upFile.path)) =>
       \E i \in 1..Len(fsOps) :
         /\ RenameDone(i, FALSE)
         /\ upFile'.name = Basename(fsOps[i].destination)
         /\ upFile'.path = fsOps[i].destination
  /\ \A d \in Destinations, n \in FileNames :
       move(d, n) =>
         IF upFile.moved \/ InFlightOps("rename") # {}
         THEN /\ last'.result = "File is already moved or in process"
              /\ fsOps' = fsOps /\ upFile' = upFile
         ELSE /\ last'.result = "pending"
              /\ Cardinality(InFlightOps("rename")') = 1

\* C28: under any interleaving of move() calls and rename completions at
\* most one rename is in flight (move() throws while one is in flight and
\* after one succeeded), moved becomes true only when a rename succeeded and
\* never reverts, name and path change only on success, and after a failed
\* rename the file is available again: a later move() is accepted.
C28_MoveIsExclusive == []MoveFlagsSound /\ [][MoveStepSound]_vars

\* C28 witness: a rename failed, a later move() was accepted and its rename
\* succeeded under the new name, and the move() after that threw.
C28_Witness ==
  /\ renames.failed /\ renames.succeeded
  /\ upFile.moved /\ upFile.name = "new.png"
  /\ last = [op |-> "move", result |-> "File is already moved or in process"]

\* C29: move() and deleteTempFile() on one uploaded file never race: no
\* rename and unlink of the file's temporary path are in flight at the same
\* time, whichever was called first, and deleteTempFile() resolves false
\* without unlinking once the file was moved or while a move is in process.
C29_MoveAndDeleteNeverRace ==
  /\ ~(InFlightOps("rename") # {} /\ InFlightOps("unlink") # {})
  /\ last = [op |-> "deleteTempFile", result |-> "false"] =>
       upFile.moved \/ upFile.processing
  /\ (upFile.moved \/ upFile.processing) => last # [op |-> "deleteTempFile", result |-> "pending"]

\* The files a request uploaded under a key, and their sizes together
UploadedUnder(upload) ==
  CASE upload.t = "array" -> upload.items
    [] upload.t = "file" -> <<upload.one>>
    [] OTHER -> <<>>

RECURSIVE SizeOfAll(_)
SizeOfAll(fs) == IF fs = <<>> THEN 0 ELSE Head(fs).size + SizeOfAll(Tail(fs))

RequestSize(uploads) ==
  SizeOfAll(UploadedUnder(uploads["avatar"]) \o UploadedUnder(uploads["docs"]))

\* Every file uploaded under the key comes back from files(), and the first
\* of them from file().
Exposed(inp, uploads, key) ==
  LET sent == UploadedUnder(uploads[key])
  IN sent # <<>> =>
       /\ files(inp, key) = FileList([i \in 1..Len(sent) |-> UploadedFile(sent[i])])
       /\ file(inp, key) = OneFile(UploadedFile(sent[1]))

\* C30: the body parser measures a request by the sizes of all its uploaded
\* files together, the files of a multi-file field included: a request over
\* uploadMaxSize ends in next(Error('Reached upload max size')) without
\* req.input, and a request within it gets a req.input whose file() and
\* files() give every uploaded file as an UploadedFile.
C30_UploadLimitCountsEveryFile ==
  (req.parsed /\ req.next # "parse error") =>
    IF RequestSize(req.uploads) > req.uploadMaxSize
    THEN req.next = "Reached upload max size" /\ ~req.hasInput
    ELSE /\ req.next = "" /\ req.hasInput
         /\ \A key \in FileKeys : Exposed(req.input, req.uploads, key)

\* The same with multi-file fields left out of the requests.
C30_SingleFilesOnly ==
  (req.parsed /\ req.next # "parse error"
     /\ \A key \in FileKeys : req.uploads[key].t # "array") =>
    IF RequestSize(req.uploads) > req.uploadMaxSize
    THEN req.next = "Reached upload max size" /\ ~req.hasInput
    ELSE /\ req.next = "" /\ req.hasInput
         /\ \A key \in FileKeys : Exposed(req.input, req.uploads, key)

====
